---- MODULE Spec2Model ----
(***************************************************************************)
(* Certificate lifecycle of ngx-manager: the SSL routes (api/routes/ssl.ts),*)
(* the CertbotService they call, and the RenewalScheduler, over the        *)
(* ssl_certificates / proxies tables and the nginx and letsencrypt files.   *)
(*                                                                         *)
(* Every route handler is an async function: it runs on a thread of        *)
(* control that yields at its awaits.  A handler is modelled as a sequence *)
(* of steps (pc), one per group of awaited statements.  Spec serves one    *)
(* call at a time, each to completion; RaceSpec interleaves the steps of   *)
(* concurrent calls; ObtainSpec adds the failures of the filesystem.       *)
(* Time is counted in days (now); created_at has a resolution of one       *)
(* second, so rows inserted within the same second tie in                  *)
(* ORDER BY created_at DESC LIMIT 1 (sec, secUsed).                        *)
(***************************************************************************)
EXTENDS Integers, Sequences, FiniteSets, TLC

\* ---------------------------------------------------------------- bounds
MaxInserts == 2
MaxTasks == 2
MaxNow == 120
TickDays == 60
Threads == {1, 2}
Callers == {1}
Lifetimes == {90}

\* ------------------------------------------------------ program constants
PlaceholderDays == 90
RenewalWindowDays == 30

Null == 0 - 1
NoMaterial == 0 - 2

Domains == {"a.example", "b.example"}
ProxyArgs == {1, 2}
Statuses == {"pending", "valid", "expired", "failed", "revoked"}
Terminal == {"expired", "failed", "revoked"}
Active == {"pending", "valid"}

VARIABLES
    now,        \* current day
    sec,        \* current value of the created_at clock (seconds, logical)
    secUsed,    \* a row was inserted during the current second
    proxies,    \* proxies table: id -> row
    certs,      \* ssl_certificates table: id -> row
    nextId,     \* AUTO_INCREMENT of ssl_certificates
    room,       \* rows the model still lets be inserted
    logs,       \* renewal_logs table, in insertion order
    material,   \* letsencrypt live/<domain>/fullchain.pem: notAfter day
    acmeConf,   \* domains with sites-available/<domain>-acme.conf
    acmeLink,   \* domains with sites-enabled/<domain>-acme.conf
    siteConf,   \* sites-available/<domain>.conf: template written
    siteLink,   \* domains with sites-enabled/<domain>.conf
    pc,         \* per thread: position in its handler
    loc,        \* per thread: the handler's local variables
    res,        \* per thread: response or error of its last finished call
    isRunning,  \* RenewalScheduler.isRunning
    cronJob,    \* RenewalScheduler.cronJob: the task it holds, or NoJob
    tasks,      \* node-cron: the scheduled tasks that are started
    nextTask,   \* node-cron: the next task cron.schedule creates
    schedLog,   \* the scheduler's last console message
    nextProxyId, \* AUTO_INCREMENT of proxies
    lastReload, \* reloadNginx as called by the last proxy route: commands, outcome
    probes,     \* testDomain: per host, the promise and the events of its request
    sans,       \* ssl_certificate_domains: the (certificate_id, domain) rows
    nginx,      \* the running nginx: is its config checked, its last reload signal
    pool,       \* mysql pool: per thread, connections held and awaited
    rendered    \* per domain: the arguments the authored config was rendered from

dbVars == <<proxies, certs, nextId, room, logs>>
timeVars == <<now, sec, secUsed>>
fsVars == <<material, acmeConf, acmeLink, siteConf, siteLink>>
thVars == <<pc, loc, res>>
schedVars == <<isRunning, cronJob, tasks, nextTask, schedLog>>
vars == <<now, sec, secUsed, proxies, certs, nextId, room, logs, material,
          acmeConf, acmeLink, siteConf, siteLink, pc, loc, res,
          isRunning, cronJob, tasks, nextTask, schedLog,
          nextProxyId, lastReload, probes, sans, nginx, pool, rendered>>
crudVars == <<nextProxyId, lastReload>>
probeVars == <<probes>>
\* state that the certificate handlers, the scheduler, the proxy routes and
\* testDomain are not followed in: each has a specification of its own below
sideVars == <<sans, nginx, pool, rendered>>

NoJob == 0

\* no reloadNginx call
NoReload == [cmds |-> <<>>, configOk |-> TRUE, threw |-> FALSE]

\* hosts given to testDomain: the two proxy domains, and one with a character
\* that a Host header cannot hold
BadHost == "bad host: U+4F8B"
ProbeHosts == Domains \cup {BadHost}
NoVerdict == [domain |-> "", reachable |-> FALSE, statusCode |-> Null,
              error |-> "none"]
\* nginx runs the config it was started with; no reload signal sent yet
NoNginx == [checked |-> TRUE, signal |-> "none"]
\* no thread holds or awaits a pooled connection
NoPool == [t \in Threads |->
            [kind |-> "none", held |-> 0, waiting |-> FALSE, calls |-> 0]]
\* no config authored through the proxy routes
NoRendered == [d \in Domains |-> <<>>]
\* no testDomain call for the host yet
NoProbe == [promise |-> "none", verdict |-> NoVerdict, events |-> <<>>,
            destroyed |-> FALSE, closed |-> FALSE]

NoInfo == [status |-> "none", expires_at |-> Null]
NoRes == [op |-> "none", r |-> "none"]

\* locals of a handler; pre, log0, sel, ca, setup, teardown observe the call:
\* the ssl_certificates table and the length of renewal_logs as the call
\* found them, the candidates a sweep selected, and how often the call has
\* run a certbot command, generateAcmeConfig and removeAcmeConfig
Idle == [op |-> "none", p |-> 0, dom |-> "", cert |-> 0, cur |-> 0,
         info |-> NoInfo, thrown |-> FALSE, queue |-> <<>>,
         pre |-> <<>>, log0 |-> 0, sel |-> <<>>,
         ca |-> 0, setup |-> 0, teardown |-> 0,
         arg |-> <<>>, found |-> <<>>]

Init ==
    /\ now = 0
    /\ sec = 1
    /\ secUsed = FALSE
    /\ proxies = (1 :> [user_id |-> 1, domain |-> "a.example",
                        ssl_enabled |-> FALSE, status |-> "active"])
              @@ (2 :> [user_id |-> 2, domain |-> "b.example",
                        ssl_enabled |-> FALSE, status |-> "active"])
    /\ certs = << >>
    /\ nextId = 1
    /\ room = MaxInserts
    /\ logs = << >>
    /\ material = [d \in Domains |-> NoMaterial]
    /\ acmeConf = {}
    /\ acmeLink = {}
    /\ siteConf = [d \in Domains |-> "http"]
    /\ siteLink = Domains
    /\ pc = [t \in Threads |-> "idle"]
    /\ loc = [t \in Threads |-> Idle]
    /\ res = [t \in Threads |-> NoRes]
    /\ isRunning = FALSE
    /\ cronJob = NoJob
    /\ tasks = {}
    /\ nextTask = 1
    /\ schedLog = "RenewalScheduler initialized"
    /\ nextProxyId = 3
    /\ lastReload = NoReload
    /\ probes = [h \in ProbeHosts |-> NoProbe]
    /\ sans = {}
    /\ nginx = NoNginx
    /\ pool = NoPool
    /\ rendered = NoRendered

\* ------------------------------------------------------------- the store

\* Math.ceil((expiresAt - now) / day), in whole days; new Date(null) is the
\* epoch, which Null (day -1) stands for.
DaysUntilExpiry(expires_at) == expires_at - now

RowsOf(proxyId) == {i \in DOMAIN certs : certs[i].proxy_id = proxyId}

\* ORDER BY created_at DESC LIMIT 1 over the rows S: any row of S with the
\* greatest created_at.
Newest(S) == {i \in S : \A j \in S : certs[j].created_at <= certs[i].created_at}

\* SELECT ... WHERE id = ? AND user_id = ?
ProxyCheck(proxyId, user) ==
    {q \in DOMAIN proxies : q = proxyId /\ proxies[q].user_id = user}

\* INSERT INTO ssl_certificates (proxy_id, domain, status, expires_at)
InsertRow(C, id, proxyId, domain, status, expires_at) ==
    [i \in DOMAIN C \cup {id} |->
        IF i = id
        THEN [proxy_id |-> proxyId, domain |-> domain, status |-> status,
              expires_at |-> expires_at, created_at |-> sec]
        ELSE C[i]]

\* UPDATE ssl_certificates SET status = ? WHERE id = ?  (no row: no effect)
SetStatus(C, id, status) ==
    [i \in DOMAIN C |-> IF i = id THEN [C[i] EXCEPT !.status = status] ELSE C[i]]

SetStatusExpiry(C, id, status, expires_at) ==
    [i \in DOMAIN C |->
        IF i = id
        THEN [C[i] EXCEPT !.status = status, !.expires_at = expires_at]
        ELSE C[i]]

\* the handler returns (res is the response or the error it raised)
Finish(t, r) ==
    /\ pc' = [pc EXCEPT ![t] = "idle"]
    /\ loc' = [loc EXCEPT ![t] = Idle]
    /\ res' = [res EXCEPT ![t] = [op |-> loc[t].op, r |-> r]]

\* a call arrives on an idle thread and fails in its first statements
Reject(t, op, r) ==
    /\ pc' = pc
    /\ loc' = loc
    /\ res' = [res EXCEPT ![t] = [op |-> op, r |-> r]]

\* a call arrives on an idle thread and goes on to its next step
Accept(t, label, locals) ==
    /\ pc' = [pc EXCEPT ![t] = label]
    /\ loc' = [loc EXCEPT ![t] = [locals EXCEPT !.pre = certs,
                                                 !.log0 = Len(logs)]]
    /\ res' = [res EXCEPT ![t] = NoRes]

Goto(t, label) == pc' = [pc EXCEPT ![t] = label]

\* the bound of the model: a call that will insert n rows is served only
\* while the table has room for them
Room(n) == n <= room

\* --------------------------------------------------------------- time

\* TickDays days pass; no call is in service for that long
Tick ==
    /\ now < MaxNow
    /\ \A t \in Threads : pc[t] = "idle"
    /\ now' = now + TickDays
    /\ sec' = IF secUsed THEN sec + 1 ELSE sec
    /\ secUsed' = FALSE
    /\ UNCHANGED <<dbVars, fsVars, thVars, schedVars, crudVars, probeVars, sideVars>>

SecondPasses ==
    /\ secUsed
    /\ sec' = sec + 1
    /\ secUsed' = FALSE
    /\ UNCHANGED <<now, dbVars, fsVars, thVars, schedVars, crudVars, probeVars, sideVars>>

\* ------------------------------------------------------ CertbotService

\* getCertificateInfo: no fullchain.pem -> pending; openssl fails -> failed;
\* otherwise notAfter is read and compared with the clock.
getCertificateInfo(notAfter, opensslOk) ==
    IF notAfter = NoMaterial THEN [status |-> "pending", expires_at |-> Null]
    ELSE IF ~opensslOk THEN [status |-> "failed", expires_at |-> Null]
    ELSE [status |-> IF notAfter < now THEN "expired" ELSE "valid",
          expires_at |-> notAfter]

\* what the certbot run leaves in live/<primary> when it exits 0: a new
\* certificate of some lifetime, or the existing one kept as it is
IssuedMaterial(primary) ==
    {now + l : l \in Lifetimes} \cup
    (IF material[primary] = NoMaterial THEN {} ELSE {material[primary]})

\* persist(primary, info): the tables after it, as the set of
\* [certs, nextId, inserted, certId] it can leave (created_at ties make it a
\* set); certId is the row it wrote, 0 when the proxy is unknown
persist(primary, info) ==
    LET pRows == {q \in DOMAIN proxies : proxies[q].domain = primary} IN
    IF pRows = {} THEN {[certs |-> certs, nextId |-> nextId, inserted |-> FALSE,
                         certId |-> 0]}
    ELSE LET proxyId == CHOOSE q \in pRows : TRUE
             existing == Newest(RowsOf(proxyId)) IN
         IF existing # {}
         THEN {[certs |-> SetStatusExpiry(certs, certId, info.status, info.expires_at),
                nextId |-> nextId, inserted |-> FALSE, certId |-> certId] :
                  certId \in existing}
         ELSE IF ~Room(1) THEN {}
         ELSE {[certs |-> InsertRow(certs, nextId, proxyId, primary,
                                    info.status, info.expires_at),
                nextId |-> nextId + 1, inserted |-> TRUE, certId |-> nextId]}

\* the step of a handler that runs persist: db is the result it leaves
Persisted(db) ==
    /\ certs' = db.certs
    /\ nextId' = db.nextId
    /\ room' = IF db.inserted THEN room - 1 ELSE room
    /\ secUsed' = (secUsed \/ db.inserted)

\* generateAcmeConfig: writeFile, unlink (errors ignored), symlink, reload;
\* failAt is the first of them to throw
generateAcmeConfig(primary, failAt) ==
    /\ acmeConf' = IF failAt = "write" THEN acmeConf ELSE acmeConf \cup {primary}
    /\ acmeLink' = CASE failAt = "write" -> acmeLink
                     [] failAt = "symlink" -> acmeLink \ {primary}
                     [] OTHER -> acmeLink \cup {primary}

\* removeAcmeConfig: unlink(enabledPath) then unlink(configPath) in one try;
\* ENOENT of the first skips the second
removeAcmeConfig(primary) ==
    /\ acmeLink' = acmeLink \ {primary}
    /\ acmeConf' = IF primary \in acmeLink THEN acmeConf \ {primary} ELSE acmeConf

\* an enableProxySSL that renders the config but does not set the flag
enableProxySSLNoFlag(primary, failAt) ==
    LET pRows == {q \in DOMAIN proxies : proxies[q].domain = primary} IN
    /\ proxies' = proxies
    /\ IF pRows = {} \/ failAt = "write"
       THEN UNCHANGED <<siteConf, siteLink>>
       ELSE LET proxy == proxies[CHOOSE q \in pRows : TRUE] IN
            /\ siteConf' = [siteConf EXCEPT ![primary] = "https"]
            /\ siteLink' = IF proxy.status = "active"
                           THEN siteLink \cup {primary}
                           ELSE siteLink \ {primary}

\* enableProxySSL: UPDATE proxies SET ssl_enabled = 1 WHERE domain = ?, then
\* writeProxyConfig (ssl_enabled: true) and reloadNginx; failAt as above
enableProxySSL(primary, failAt) ==
    LET pRows == {q \in DOMAIN proxies : proxies[q].domain = primary} IN
    /\ proxies' = [q \in DOMAIN proxies |->
                     IF q \in pRows THEN [proxies[q] EXCEPT !.ssl_enabled = TRUE]
                     ELSE proxies[q]]
    /\ IF pRows = {} \/ failAt = "write"
       THEN UNCHANGED <<siteConf, siteLink>>
       ELSE LET proxy == proxies[CHOOSE q \in pRows : TRUE] IN
            /\ siteConf' = [siteConf EXCEPT ![primary] = "https"]
            /\ siteLink' = IF proxy.status = "active"
                           THEN siteLink \cup {primary}
                           ELSE siteLink \ {primary}

\* ------------------------------------------- POST /api/ssl/request/:proxyId

\* the request route without the days-until-expiry test of a valid row
RequestCheckNoExpiryTest(t, proxyId, user) ==
    /\ pc[t] = "idle"
    /\ UNCHANGED <<schedVars, crudVars, probeVars, sideVars>>
    /\ UNCHANGED <<timeVars, dbVars, fsVars>>
    /\ IF ProxyCheck(proxyId, user) = {}
       THEN Reject(t, "request", "NotFoundError")
       ELSE LET existingCert == Newest({i \in RowsOf(proxyId) :
                                          certs[i].status \in Active})
                go == /\ Room(1)
                      /\ Accept(t, "req_insert",
                                [Idle EXCEPT !.op = "request", !.p = proxyId,
                                             !.dom = proxies[proxyId].domain])
            IN IF existingCert = {} THEN go
               ELSE \E cert \in existingCert :
                      IF certs[cert].status = "pending"
                      THEN Reject(t, "request", "ValidationError")
                      ELSE go

RequestCheck(t, proxyId, user) ==
    /\ pc[t] = "idle"
    /\ UNCHANGED <<schedVars, crudVars, probeVars, sideVars>>
    /\ UNCHANGED <<timeVars, dbVars, fsVars>>
    /\ IF ProxyCheck(proxyId, user) = {}
       THEN Reject(t, "request", "NotFoundError")
       ELSE LET existingCert == Newest({i \in RowsOf(proxyId) :
                                          certs[i].status \in Active})
                go == /\ Room(1)
                      /\ Accept(t, "req_insert",
                                [Idle EXCEPT !.op = "request", !.p = proxyId,
                                             !.dom = proxies[proxyId].domain])
            IN IF existingCert = {} THEN go
               ELSE \E cert \in existingCert :
                      IF certs[cert].status = "pending"
                      THEN Reject(t, "request", "ValidationError")
                      ELSE IF certs[cert].status = "valid"
                              /\ DaysUntilExpiry(certs[cert].expires_at) > RenewalWindowDays
                      THEN Reject(t, "request", "ValidationError")
                      ELSE go

RequestInsert(t) ==
    /\ pc[t] = "req_insert"
    /\ UNCHANGED <<schedVars, crudVars, probeVars, sideVars>>
    /\ Room(1)
    /\ certs' = InsertRow(certs, nextId, loc[t].p, loc[t].dom, "pending",
                          now + PlaceholderDays)
    /\ nextId' = nextId + 1
    /\ room' = room - 1
    /\ secUsed' = TRUE
    /\ loc' = [loc EXCEPT ![t].cert = nextId]
    /\ Goto(t, "obt_setup")
    /\ UNCHANGED <<now, sec, proxies, logs, fsVars, res>>

\* obtainCertificate up to the try block: checkCertbotInstallation, initDirs
\* and generateAcmeConfig; a throw here reaches the route's catch directly
ObtainSetup(t, fsFaults) ==
    /\ pc[t] = "obt_setup"
    /\ UNCHANGED <<schedVars, crudVars, probeVars, sideVars>>
    /\ \E failAt \in {"certbot", "none"} \cup
                     (IF fsFaults THEN {"write", "symlink", "reload"} ELSE {}) :
         /\ IF failAt = "certbot"
            THEN UNCHANGED <<acmeConf, acmeLink>>
            ELSE generateAcmeConfig(loc[t].dom, failAt)
         /\ Goto(t, IF failAt = "none" THEN "obt_ca" ELSE "req_catch")
         /\ loc' = [loc EXCEPT ![t].setup = @ + (IF failAt = "certbot" THEN 0 ELSE 1)]
    /\ UNCHANGED <<timeVars, dbVars, material, siteConf, siteLink, res>>

\* the certbot certonly run and getCertificateInfo
ObtainCA(t) ==
    /\ pc[t] = "obt_ca"
    /\ UNCHANGED <<schedVars, crudVars, probeVars, sideVars>>
    /\ \/ /\ UNCHANGED material
          /\ loc' = [loc EXCEPT ![t].ca = @ + 1]
          /\ Goto(t, "obt_catch")
       \/ \E m \in IssuedMaterial(loc[t].dom), opensslOk \in BOOLEAN :
            /\ material' = [material EXCEPT ![loc[t].dom] = m]
            /\ LET info == getCertificateInfo(m, opensslOk) IN
               /\ loc' = [loc EXCEPT ![t].info = info, ![t].ca = @ + 1]
               /\ Goto(t, IF info.status = "valid" THEN "obt_persist" ELSE "obt_catch")
    /\ UNCHANGED <<timeVars, dbVars, acmeConf, acmeLink, siteConf, siteLink, res>>

\* persist(primary, info) inside the try; dbOk = FALSE: it throws
ObtainPersist(t) ==
    /\ pc[t] = "obt_persist"
    /\ UNCHANGED <<schedVars, crudVars, probeVars, sideVars>>
    /\ \/ /\ UNCHANGED <<certs, nextId, room, secUsed>>
          /\ Goto(t, "obt_catch")
       \/ \E db \in persist(loc[t].dom, loc[t].info) :
            /\ Persisted(db)
            /\ Goto(t, "obt_enable")
    /\ UNCHANGED <<now, sec, proxies, logs, fsVars, loc, res>>

ObtainEnable(t, fsFaults) ==
    /\ pc[t] = "obt_enable"
    /\ UNCHANGED <<schedVars, crudVars, probeVars, sideVars>>
    /\ \E failAt \in {"reload", "none"} \cup (IF fsFaults THEN {"write"} ELSE {}) :
         /\ enableProxySSL(loc[t].dom, failAt)
         /\ Goto(t, IF failAt = "none" THEN "obt_finally" ELSE "obt_catch")
    /\ UNCHANGED <<timeVars, certs, nextId, room, logs, material, acmeConf, acmeLink,
                   loc, res>>

\* the catch of an obtainCertificate without the finally block: the rethrow
\* leaves the method at once
ObtainCatchNoFinally(t) ==
    /\ pc[t] = "obt_catch"
    /\ UNCHANGED <<schedVars, crudVars, probeVars, sideVars>>
    /\ \/ UNCHANGED <<certs, nextId, room, secUsed>>
       \/ \E db \in persist(loc[t].dom, [status |-> "failed", expires_at |-> Null]) :
            Persisted(db)
    /\ loc' = [loc EXCEPT ![t].thrown = TRUE]
    /\ Goto(t, "req_catch")
    /\ UNCHANGED <<now, sec, proxies, logs, fsVars, res>>

\* catch (e): persist(primary, {status: "failed"}) and rethrow
ObtainCatch(t) ==
    /\ pc[t] = "obt_catch"
    /\ UNCHANGED <<schedVars, crudVars, probeVars, sideVars>>
    /\ \/ UNCHANGED <<certs, nextId, room, secUsed>>
       \/ \E db \in persist(loc[t].dom, [status |-> "failed", expires_at |-> Null]) :
            Persisted(db)
    /\ loc' = [loc EXCEPT ![t].thrown = TRUE]
    /\ Goto(t, "obt_finally")
    /\ UNCHANGED <<now, sec, proxies, logs, fsVars, res>>

\* finally: removeAcmeConfig(primary)
ObtainFinally(t) ==
    /\ pc[t] = "obt_finally"
    /\ UNCHANGED <<schedVars, crudVars, probeVars, sideVars>>
    /\ removeAcmeConfig(loc[t].dom)
    /\ loc' = [loc EXCEPT ![t].teardown = @ + 1]
    /\ Goto(t, IF loc[t].thrown THEN "req_catch" ELSE "req_final")
    /\ UNCHANGED <<timeVars, dbVars, material, siteConf, siteLink, res>>

\* obtainCertificate returned info: UPDATE ... SET status = finalStatus,
\* expires_at = info.expires_at || expiresAt
RequestFinal(t) ==
    /\ pc[t] = "req_final"
    /\ UNCHANGED <<schedVars, crudVars, probeVars, sideVars>>
    /\ certs' = SetStatusExpiry(certs, loc[t].cert,
                    IF loc[t].info.status = "valid" THEN "valid" ELSE "failed",
                    IF loc[t].info.expires_at = Null
                    THEN now + PlaceholderDays
                    ELSE loc[t].info.expires_at)
    /\ Finish(t, "ok")
    /\ UNCHANGED <<timeVars, proxies, nextId, room, logs, fsVars>>

\* catch (certError): UPDATE ... SET status = 'failed'
RequestCatch(t) ==
    /\ pc[t] = "req_catch"
    /\ UNCHANGED <<schedVars, crudVars, probeVars, sideVars>>
    /\ certs' = SetStatus(certs, loc[t].cert, "failed")
    /\ Finish(t, "ok")
    /\ UNCHANGED <<timeVars, proxies, nextId, room, logs, fsVars>>

\* fsFaults: whether the filesystem and the nginx reload of the challenge
\* routing may fail in this specification
Request(t, fsFaults) ==
    \/ \E proxyId \in ProxyArgs, user \in Callers : RequestCheck(t, proxyId, user)
    \/ RequestInsert(t)
    \/ ObtainSetup(t, fsFaults) \/ ObtainCA(t) \/ ObtainPersist(t)
    \/ ObtainEnable(t, fsFaults)
    \/ ObtainCatch(t) \/ ObtainFinally(t)
    \/ RequestFinal(t) \/ RequestCatch(t)

\* --------------------------------------------- POST /api/ssl/renew/:proxyId

\* the certbot renew run of CertbotService.renew and its getCertificateInfo:
\* the material and info it can leave after exit 0 (certbot renews or keeps
\* an existing lineage; without one, renew --cert-name exits non-zero)
RenewOutcomes(primary) ==
    IF material[primary] = NoMaterial THEN {}
    ELSE {[material |-> m, info |-> getCertificateInfo(m, opensslOk)] :
            m \in IssuedMaterial(primary), opensslOk \in BOOLEAN}

\* the renew route with the comparison of its validation turned round
RenewCheckInverted(t, proxyId, user) ==
    /\ pc[t] = "idle"
    /\ UNCHANGED <<schedVars, crudVars, probeVars, sideVars>>
    /\ UNCHANGED <<timeVars, dbVars, fsVars>>
    /\ IF ProxyCheck(proxyId, user) = {}
       THEN Reject(t, "renew", "NotFoundError")
       ELSE LET currentCert == Newest(RowsOf(proxyId)) IN
            IF currentCert = {} THEN Reject(t, "renew", "NotFoundError")
            ELSE \E cert \in currentCert :
                   IF DaysUntilExpiry(certs[cert].expires_at) < RenewalWindowDays
                      /\ certs[cert].status = "valid"
                   THEN Reject(t, "renew", "ValidationError")
                   ELSE /\ Room(1)
                        /\ Accept(t, "ren_expire",
                                  [Idle EXCEPT !.op = "renew", !.p = proxyId,
                                               !.dom = proxies[proxyId].domain,
                                               !.cur = cert])

RenewCheck(t, proxyId, user) ==
    /\ pc[t] = "idle"
    /\ UNCHANGED <<schedVars, crudVars, probeVars, sideVars>>
    /\ UNCHANGED <<timeVars, dbVars, fsVars>>
    /\ IF ProxyCheck(proxyId, user) = {}
       THEN Reject(t, "renew", "NotFoundError")
       ELSE LET currentCert == Newest(RowsOf(proxyId)) IN
            IF currentCert = {} THEN Reject(t, "renew", "NotFoundError")
            ELSE \E cert \in currentCert :
                   IF DaysUntilExpiry(certs[cert].expires_at) > RenewalWindowDays
                      /\ certs[cert].status = "valid"
                   THEN Reject(t, "renew", "ValidationError")
                   ELSE /\ Room(1)
                        /\ Accept(t, "ren_expire",
                                  [Idle EXCEPT !.op = "renew", !.p = proxyId,
                                               !.dom = proxies[proxyId].domain,
                                               !.cur = cert])

\* the renew route whose UPDATE to expired matches no row
RenewExpireNoRow(t) ==
    /\ pc[t] = "ren_expire"
    /\ UNCHANGED <<schedVars, crudVars, probeVars, sideVars>>
    /\ certs' = SetStatus(certs, 0, "expired")
    /\ Goto(t, "ren_insert")
    /\ UNCHANGED <<timeVars, proxies, nextId, room, logs, fsVars, loc, res>>

\* Mark current certificate as expired
RenewExpire(t) ==
    /\ pc[t] = "ren_expire"
    /\ UNCHANGED <<schedVars, crudVars, probeVars, sideVars>>
    /\ certs' = SetStatus(certs, loc[t].cur, "expired")
    /\ Goto(t, "ren_insert")
    /\ UNCHANGED <<timeVars, proxies, nextId, room, logs, fsVars, loc, res>>

\* Create new certificate request
RenewInsert(t) ==
    /\ pc[t] = "ren_insert"
    /\ UNCHANGED <<schedVars, crudVars, probeVars, sideVars>>
    /\ Room(1)
    /\ certs' = InsertRow(certs, nextId, loc[t].p, loc[t].dom, "pending",
                          now + PlaceholderDays)
    /\ nextId' = nextId + 1
    /\ room' = room - 1
    /\ secUsed' = TRUE
    /\ loc' = [loc EXCEPT ![t].cert = nextId]
    /\ Goto(t, "ren_ca")
    /\ UNCHANGED <<now, sec, proxies, logs, fsVars, res>>

\* certbotService.renew: the certbot renew run and getCertificateInfo
RenewCA(t) ==
    /\ pc[t] = "ren_ca"
    /\ UNCHANGED <<schedVars, crudVars, probeVars, sideVars>>
    /\ \/ /\ UNCHANGED material
          /\ loc' = [loc EXCEPT ![t].ca = @ + 1]
          /\ Goto(t, "ren_catch")
       \/ \E o \in RenewOutcomes(loc[t].dom) :
            /\ material' = [material EXCEPT ![loc[t].dom] = o.material]
            /\ loc' = [loc EXCEPT ![t].info = o.info, ![t].ca = @ + 1]
            /\ Goto(t, "ren_persist")
    /\ UNCHANGED <<timeVars, dbVars, acmeConf, acmeLink, siteConf, siteLink, res>>

\* certbotService.renew: persist(primary, info), then nginx -s reload when
\* the result is valid; either can throw
RenewPersist(t) ==
    /\ pc[t] = "ren_persist"
    /\ UNCHANGED <<schedVars, crudVars, probeVars, sideVars>>
    /\ \/ /\ UNCHANGED <<certs, nextId, room, secUsed>>
          /\ Goto(t, "ren_catch")
       \/ \E db \in persist(loc[t].dom, loc[t].info) :
            /\ Persisted(db)
            /\ \/ Goto(t, "ren_final")
               \/ /\ loc[t].info.status = "valid"
                  /\ Goto(t, "ren_catch")
    /\ UNCHANGED <<now, sec, proxies, logs, fsVars, loc, res>>

\* renew returned info: UPDATE ... SET status = 'valid' or 'failed'
RenewFinal(t) ==
    /\ pc[t] = "ren_final"
    /\ UNCHANGED <<schedVars, crudVars, probeVars, sideVars>>
    /\ certs' = SetStatus(certs, loc[t].cert,
                          IF loc[t].info.status = "valid" THEN "valid" ELSE "failed")
    /\ Finish(t, "ok")
    /\ UNCHANGED <<timeVars, proxies, nextId, room, logs, fsVars>>

\* catch (renewError): UPDATE ... SET status = 'failed'
RenewCatch(t) ==
    /\ pc[t] = "ren_catch"
    /\ UNCHANGED <<schedVars, crudVars, probeVars, sideVars>>
    /\ certs' = SetStatus(certs, loc[t].cert, "failed")
    /\ Finish(t, "ok")
    /\ UNCHANGED <<timeVars, proxies, nextId, room, logs, fsVars>>

Renew(t) ==
    \/ \E proxyId \in ProxyArgs, user \in Callers : RenewCheck(t, proxyId, user)
    \/ RenewExpire(t) \/ RenewInsert(t) \/ RenewCA(t) \/ RenewPersist(t)
    \/ RenewFinal(t) \/ RenewCatch(t)

\* ------------------------------------------------ POST /api/ssl/revoke/:id

\* SELECT ... FROM ssl_certificates s JOIN proxies p ... WHERE s.id = ? AND
\* p.user_id = ?
CertCheck(certificateId, user) ==
    {i \in DOMAIN certs : i = certificateId
                          /\ certs[i].proxy_id \in DOMAIN proxies
                          /\ proxies[certs[i].proxy_id].user_id = user}

\* the revoke route without its test of the certificate's status
RevokeCheckAnyStatus(t, certificateId, user) ==
    /\ pc[t] = "idle"
    /\ UNCHANGED <<schedVars, crudVars, probeVars, sideVars>>
    /\ UNCHANGED <<timeVars, dbVars, fsVars>>
    /\ IF CertCheck(certificateId, user) = {}
       THEN Reject(t, "revoke", "NotFoundError")
       ELSE Accept(t, "rev_ca",
                   [Idle EXCEPT !.op = "revoke", !.cur = certificateId,
                                !.dom = certs[certificateId].domain])

RevokeCheck(t, certificateId, user) ==
    /\ pc[t] = "idle"
    /\ UNCHANGED <<schedVars, crudVars, probeVars, sideVars>>
    /\ UNCHANGED <<timeVars, dbVars, fsVars>>
    /\ IF CertCheck(certificateId, user) = {}
       THEN Reject(t, "revoke", "NotFoundError")
       ELSE IF certs[certificateId].status # "valid"
       THEN Reject(t, "revoke", "ValidationError")
       ELSE Accept(t, "rev_ca",
                   [Idle EXCEPT !.op = "revoke", !.cur = certificateId,
                                !.dom = certs[certificateId].domain])

\* certbotService.revoke up to its persist: no fullchain.pem -> return;
\* else the certbot revoke run, which throws or revokes (and deletes the
\* lineage or leaves it)
revoke(t, onReturn, onPersist, onThrow) ==
    IF material[loc[t].dom] = NoMaterial
    THEN /\ UNCHANGED <<material, loc>>
         /\ Goto(t, onReturn)
    ELSE /\ loc' = [loc EXCEPT ![t].ca = @ + 1]
         /\ \/ /\ UNCHANGED material
               /\ Goto(t, onThrow)
            \/ /\ \E m \in {NoMaterial, material[loc[t].dom]} :
                    material' = [material EXCEPT ![loc[t].dom] = m]
               /\ Goto(t, onPersist)

\* certbotService.revoke: persist(primary, {status: "failed"}); dbOk as above
revokePersist(t, onReturn, onThrow) ==
    \/ /\ UNCHANGED <<certs, nextId, room, secUsed>>
       /\ Goto(t, onThrow)
    \/ \E db \in persist(loc[t].dom, [status |-> "failed", expires_at |-> Null]) :
         /\ Persisted(db)
         /\ Goto(t, onReturn)

RevokeCA(t) ==
    /\ pc[t] = "rev_ca"
    /\ UNCHANGED <<schedVars, crudVars, probeVars, sideVars>>
    /\ revoke(t, "rev_update", "rev_persist", "rev_catch")
    /\ UNCHANGED <<timeVars, dbVars, acmeConf, acmeLink, siteConf, siteLink, res>>

RevokePersist(t) ==
    /\ pc[t] = "rev_persist"
    /\ UNCHANGED <<schedVars, crudVars, probeVars, sideVars>>
    /\ revokePersist(t, "rev_update", "rev_catch")
    /\ UNCHANGED <<now, sec, proxies, logs, fsVars, loc, res>>

\* Update certificate status to revoked
RevokeUpdate(t) ==
    /\ pc[t] = "rev_update"
    /\ UNCHANGED <<schedVars, crudVars, probeVars, sideVars>>
    /\ certs' = SetStatus(certs, loc[t].cur, "revoked")
    /\ Finish(t, "ok")
    /\ UNCHANGED <<timeVars, proxies, nextId, room, logs, fsVars>>

\* catch (revokeError): throw createDatabaseError
RevokeCatch(t) ==
    /\ pc[t] = "rev_catch"
    /\ UNCHANGED <<schedVars, crudVars, probeVars, sideVars>>
    /\ Finish(t, "DatabaseError")
    /\ UNCHANGED <<timeVars, dbVars, fsVars>>

Revoke(t) ==
    \/ \E certificateId \in 1..MaxInserts, user \in Callers :
         RevokeCheck(t, certificateId, user)
    \/ RevokeCA(t) \/ RevokePersist(t) \/ RevokeUpdate(t) \/ RevokeCatch(t)

\* ------------------------------------------ DELETE /api/ssl/certificates/:id

DeleteCheck(t, certificateId, user) ==
    /\ pc[t] = "idle"
    /\ UNCHANGED <<schedVars, crudVars, probeVars, sideVars>>
    /\ UNCHANGED <<timeVars, dbVars, fsVars>>
    /\ IF CertCheck(certificateId, user) = {}
       THEN Reject(t, "delete", "NotFoundError")
       ELSE Accept(t, IF certs[certificateId].status = "valid"
                      THEN "del_ca" ELSE "del_delete",
                   [Idle EXCEPT !.op = "delete", !.cur = certificateId,
                                !.dom = certs[certificateId].domain])

\* If certificate is valid, revoke it first; a throw is logged and ignored
DeleteCA(t) ==
    /\ pc[t] = "del_ca"
    /\ UNCHANGED <<schedVars, crudVars, probeVars, sideVars>>
    /\ revoke(t, "del_delete", "del_persist", "del_delete")
    /\ UNCHANGED <<timeVars, dbVars, acmeConf, acmeLink, siteConf, siteLink, res>>

DeletePersist(t) ==
    /\ pc[t] = "del_persist"
    /\ UNCHANGED <<schedVars, crudVars, probeVars, sideVars>>
    /\ revokePersist(t, "del_delete", "del_delete")
    /\ UNCHANGED <<now, sec, proxies, logs, fsVars, loc, res>>

\* DELETE FROM ssl_certificates WHERE id = ?
DeleteRow(t) ==
    /\ pc[t] = "del_delete"
    /\ UNCHANGED <<schedVars, crudVars, probeVars, sideVars>>
    /\ certs' = [i \in DOMAIN certs \ {loc[t].cur} |-> certs[i]]
    /\ Finish(t, "ok")
    /\ UNCHANGED <<timeVars, proxies, nextId, room, logs, fsVars>>

Delete(t) ==
    \/ \E certificateId \in 1..MaxInserts, user \in Callers :
         DeleteCheck(t, certificateId, user)
    \/ DeleteCA(t) \/ DeletePersist(t) \/ DeleteRow(t)

\* ------------------------------- RenewalScheduler.checkAndRenewCertificates

\* SELECT ... WHERE s.status = 'valid' AND s.expires_at <= NOW() + 30 days
\* AND s.expires_at > NOW(), joined with proxies
ExpiringSoon ==
    {i \in DOMAIN certs : /\ certs[i].proxy_id \in DOMAIN proxies
                          /\ certs[i].status = "valid"
                          /\ certs[i].expires_at <= now + RenewalWindowDays
                          /\ certs[i].expires_at > now}

\* ORDER BY s.expires_at ASC: the orders the rows can be returned in
OrderedByExpiry(S) ==
    {q \in [1..Cardinality(S) -> S] :
        /\ \A i, j \in 1..Cardinality(S) : i # j => q[i] # q[j]
        /\ \A i, j \in 1..Cardinality(S) :
              i < j => certs[q[i]].expires_at <= certs[q[j]].expires_at}

CertRow(i) == [id |-> i, proxy_id |-> certs[i].proxy_id, domain |-> certs[i].domain]

SweepSelect(t) ==
    /\ pc[t] = "idle"
    /\ UNCHANGED <<schedVars, crudVars, probeVars, sideVars>>
    /\ UNCHANGED <<timeVars, dbVars, fsVars>>
    /\ IF ExpiringSoon = {}
       THEN Reject(t, "sweep", "ok")
       ELSE \E q \in OrderedByExpiry(ExpiringSoon) :
              /\ Room(Len(q))
              /\ Accept(t, "sw_expire",
                     [Idle EXCEPT !.op = "sweep",
                                  !.queue = [k \in 1..Len(q) |-> CertRow(q[k])],
                                  !.sel = [k \in 1..Len(q) |-> CertRow(q[k])]])

\* renewCertificate(cert): Mark current certificate as expired
SweepExpire(t) ==
    /\ pc[t] = "sw_expire"
    /\ UNCHANGED <<schedVars, crudVars, probeVars, sideVars>>
    /\ certs' = SetStatus(certs, Head(loc[t].queue).id, "expired")
    /\ loc' = [loc EXCEPT ![t].cur = Head(loc[t].queue).id,
                          ![t].p = Head(loc[t].queue).proxy_id,
                          ![t].dom = Head(loc[t].queue).domain,
                          ![t].cert = 0, ![t].info = NoInfo]
    /\ Goto(t, "sw_insert")
    /\ UNCHANGED <<timeVars, proxies, nextId, room, logs, fsVars, res>>

SweepInsert(t) ==
    /\ pc[t] = "sw_insert"
    /\ UNCHANGED <<schedVars, crudVars, probeVars, sideVars>>
    /\ Room(1)
    /\ certs' = InsertRow(certs, nextId, loc[t].p, loc[t].dom, "pending",
                          now + PlaceholderDays)
    /\ nextId' = nextId + 1
    /\ room' = room - 1
    /\ secUsed' = TRUE
    /\ loc' = [loc EXCEPT ![t].cert = nextId]
    /\ Goto(t, "sw_ca")
    /\ UNCHANGED <<now, sec, proxies, logs, fsVars, res>>

SweepCA(t) ==
    /\ pc[t] = "sw_ca"
    /\ UNCHANGED <<schedVars, crudVars, probeVars, sideVars>>
    /\ \/ /\ UNCHANGED material
          /\ loc' = [loc EXCEPT ![t].ca = @ + 1]
          /\ Goto(t, "sw_catch")
       \/ \E o \in RenewOutcomes(loc[t].dom) :
            /\ material' = [material EXCEPT ![loc[t].dom] = o.material]
            /\ loc' = [loc EXCEPT ![t].info = o.info, ![t].ca = @ + 1]
            /\ Goto(t, "sw_persist")
    /\ UNCHANGED <<timeVars, dbVars, acmeConf, acmeLink, siteConf, siteLink, res>>

SweepPersist(t) ==
    /\ pc[t] = "sw_persist"
    /\ UNCHANGED <<schedVars, crudVars, probeVars, sideVars>>
    /\ \/ /\ UNCHANGED <<certs, nextId, room, secUsed>>
          /\ Goto(t, "sw_catch")
       \/ \E db \in persist(loc[t].dom, loc[t].info) :
            /\ Persisted(db)
            /\ \/ Goto(t, "sw_final")
               \/ /\ loc[t].info.status = "valid"
                  /\ Goto(t, "sw_catch")
    /\ UNCHANGED <<now, sec, proxies, logs, fsVars, loc, res>>

\* logRenewalEvent(domain, status): INSERT INTO renewal_logs
logRenewalEvent(domain, status) ==
    logs' = Append(logs, [domain |-> domain, status |-> status])

\* the for loop of checkAndRenewCertificates goes on to the next candidate
SweepNext(t) ==
    IF Len(loc[t].queue) = 1
    THEN Finish(t, "ok")
    ELSE /\ loc' = [loc EXCEPT ![t].queue = Tail(@)]
         /\ Goto(t, "sw_expire")
         /\ UNCHANGED res

\* renew returned info: UPDATE ... SET status, then the renewal log
SweepFinal(t) ==
    /\ pc[t] = "sw_final"
    /\ UNCHANGED <<schedVars, crudVars, probeVars, sideVars>>
    /\ certs' = SetStatus(certs, loc[t].cert,
                          IF loc[t].info.status = "valid" THEN "valid" ELSE "failed")
    /\ logRenewalEvent(loc[t].dom,
                       IF loc[t].info.status = "valid" THEN "success" ELSE "failed")
    /\ SweepNext(t)
    /\ UNCHANGED <<timeVars, proxies, nextId, room, fsVars>>

\* renewCertificate whose catch rethrows: the loop of the sweep ends there
SweepCatchRethrow(t) ==
    /\ pc[t] = "sw_catch"
    /\ UNCHANGED <<schedVars, crudVars, probeVars, sideVars>>
    /\ logRenewalEvent(loc[t].dom, "error")
    /\ Finish(t, "ok")
    /\ UNCHANGED <<timeVars, proxies, certs, nextId, room, fsVars>>

\* catch (error): the renewal log only
SweepCatch(t) ==
    /\ pc[t] = "sw_catch"
    /\ UNCHANGED <<schedVars, crudVars, probeVars, sideVars>>
    /\ logRenewalEvent(loc[t].dom, "error")
    /\ SweepNext(t)
    /\ UNCHANGED <<timeVars, proxies, certs, nextId, room, fsVars>>

Sweep(t) ==
    \/ SweepSelect(t)
    \/ SweepExpire(t) \/ SweepInsert(t) \/ SweepCA(t) \/ SweepPersist(t)
    \/ SweepFinal(t) \/ SweepCatch(t)

Handler(t) == Request(t, FALSE) \/ Renew(t) \/ Revoke(t) \/ Delete(t) \/ Sweep(t)

\* every call runs to completion before the next one is served
Next ==
    \/ Tick
    \/ SecondPasses
    \/ Handler(1)

Spec == Init /\ [][Next]_vars

\* certificate requests alone, one at a time, with every failure of the
\* filesystem and of nginx
ObtainNext ==
    \/ Tick
    \/ SecondPasses
    \/ Request(1, TRUE)

ObtainSpec == Init /\ [][ObtainNext]_vars

\* request and renew calls served concurrently: their steps interleave at
\* the awaits
RaceNext ==
    \/ Tick
    \/ SecondPasses
    \/ \E t \in Threads : Request(t, FALSE) \/ Renew(t)

RaceSpec == Init /\ [][RaceNext]_vars

\* the scheduler sweeping alone over two proxies whose certificates, issued
\* PlaceholderDays before their expiry, have come into the renewal window
SweepInit ==
    /\ now = TickDays
    /\ sec = 3
    /\ secUsed = FALSE
    /\ proxies = (1 :> [user_id |-> 1, domain |-> "a.example",
                        ssl_enabled |-> TRUE, status |-> "active"])
              @@ (2 :> [user_id |-> 2, domain |-> "b.example",
                        ssl_enabled |-> TRUE, status |-> "active"])
    /\ certs = InsertRow(InsertRow(<< >>, 1, 1, "a.example", "valid", PlaceholderDays),
                         2, 2, "b.example", "valid", PlaceholderDays)
    /\ nextId = 3
    /\ room = MaxInserts
    /\ logs = << >>
    /\ material = [d \in Domains |-> PlaceholderDays]
    /\ acmeConf = {}
    /\ acmeLink = {}
    /\ siteConf = [d \in Domains |-> "https"]
    /\ siteLink = Domains
    /\ pc = [t \in Threads |-> "idle"]
    /\ loc = [t \in Threads |-> Idle]
    /\ res = [t \in Threads |-> NoRes]
    /\ isRunning = FALSE
    /\ cronJob = NoJob
    /\ tasks = {}
    /\ nextTask = 1
    /\ schedLog = "RenewalScheduler initialized"
    /\ nextProxyId = 3
    /\ lastReload = NoReload
    /\ probes = [h \in ProbeHosts |-> NoProbe]
    /\ sans = {}
    /\ nginx = NoNginx
    /\ pool = NoPool
    /\ rendered = NoRendered

SweepNextStep ==
    \/ Tick
    \/ SecondPasses
    \/ Sweep(1)

SweepSpec == SweepInit /\ [][SweepNextStep]_vars

\* ------------------------------------------ RenewalScheduler.start / stop

schedState == <<isRunning, cronJob, tasks, nextTask>>

\* a start() that does not test isRunning
startAlways ==
    /\ nextTask <= MaxTasks
    /\ cronJob' = nextTask
    /\ tasks' = tasks \cup {nextTask}
    /\ nextTask' = nextTask + 1
    /\ isRunning' = TRUE
    /\ schedLog' = "started"
    /\ UNCHANGED <<timeVars, dbVars, fsVars, thVars, crudVars, probeVars, sideVars>>

\* start(): a no-op when running; else cron.schedule(..., {scheduled: true})
\* creates a task and starts it
start ==
    IF isRunning
    THEN /\ schedLog' = "already running"
         /\ UNCHANGED <<schedState, timeVars, dbVars, fsVars, thVars,
                        crudVars, probeVars, sideVars>>
    ELSE /\ nextTask <= MaxTasks
         /\ cronJob' = nextTask
         /\ tasks' = tasks \cup {nextTask}
         /\ nextTask' = nextTask + 1
         /\ isRunning' = TRUE
         /\ schedLog' = "started"
         /\ UNCHANGED <<timeVars, dbVars, fsVars, thVars, crudVars, probeVars, sideVars>>

\* stop(): cronJob.stop() and cronJob = null when there is one
stop ==
    /\ tasks' = IF cronJob # NoJob THEN tasks \ {cronJob} ELSE tasks
    /\ cronJob' = NoJob
    /\ isRunning' = FALSE
    /\ schedLog' = "stopped"
    /\ UNCHANGED <<nextTask, timeVars, dbVars, fsVars, thVars, crudVars,
                   probeVars, sideVars>>

\* a started task fires (daily at 2:00): checkAndRenewCertificates
CronFire(t) ==
    /\ tasks # {}
    /\ SweepSelect(t)

\* the scheduler being started and stopped while its sweeps run
SchedNext ==
    \/ Tick
    \/ SecondPasses
    \/ start
    \/ stop
    \/ CronFire(1)
    \/ SweepExpire(1) \/ SweepInsert(1) \/ SweepCA(1) \/ SweepPersist(1)
    \/ SweepFinal(1) \/ SweepCatch(1)

SchedSpec == SweepInit /\ [][SchedNext]_vars

\* one sweep step of thread t after the selection
SweepStep(t) ==
    \/ SweepExpire(t) \/ SweepInsert(t) \/ SweepCA(t) \/ SweepPersist(t)
    \/ SweepFinal(t) \/ SweepCatch(t)

\* the scheduler is started and never stopped
RunningNext ==
    \/ Tick
    \/ SecondPasses
    \/ start
    \/ CronFire(1)
    \/ SweepStep(1)

\* start() is called at server start-up, the started task keeps firing, and a
\* sweep that has begun goes on: every await of it returns
RunningSpec ==
    /\ SweepInit
    /\ [][RunningNext]_vars
    /\ WF_vars(start)
    /\ WF_vars(CronFire(1))
    /\ WF_vars(SweepStep(1))

\* ------------------------------------------------------- NginxGenerator

ProxyStatuses == {"active", "inactive"}
\* what can go wrong in the sites-available / sites-enabled directories
FsFaults == {"none", "write", "symlink", "unlink"}

\* generateProxyConfig: the HTTPS template when ssl_enabled, else the HTTP one
generateProxyConfig(proxy) == IF proxy.ssl_enabled THEN "https" ELSE "http"

\* enableSite: unlink an existing link (errors ignored), then symlink
enableSite(link, domain, fault) ==
    IF fault = "symlink"
    THEN [link |-> link \ {domain}, threw |-> TRUE]
    ELSE [link |-> link \cup {domain}, threw |-> FALSE]

\* disableSite: unlink the link; ENOENT is swallowed, other errors rethrown
disableSite(link, domain, fault) ==
    IF fault = "unlink"
    THEN [link |-> link, threw |-> TRUE]
    ELSE [link |-> link \ {domain}, threw |-> FALSE]

\* writeProxyConfig: write sites-available/<domain>.conf, then enable the
\* site when the proxy is active and disable it otherwise; errors rethrown
writeProxyConfig(conf, link, proxy, fault) ==
    IF fault = "write"
    THEN [conf |-> conf, link |-> link, threw |-> TRUE]
    ELSE LET written == [conf EXCEPT
                           ![proxy.domain] = generateProxyConfig(proxy)]
             site == IF proxy.status = "active"
                     THEN enableSite(link, proxy.domain, fault)
                     ELSE disableSite(link, proxy.domain, fault)
         IN  [conf |-> written, link |-> site.link, threw |-> site.threw]

\* a removeProxyConfig written like removeAcmeConfig: both unlinks in one try
\* whose catch swallows the error, so a missing link skips the file
removeProxyConfigOneTry(conf, link, domain, fault) ==
    IF domain \notin link \/ fault = "unlink"
    THEN [conf |-> conf, link |-> link, threw |-> FALSE]
    ELSE [conf |-> [conf EXCEPT ![domain] = "none"],
          link |-> link \ {domain}, threw |-> FALSE]

\* removeProxyConfig: disableSite, then unlink the authored file; ENOENT is
\* swallowed at both, other errors rethrown ("write": the unlink of the file
\* fails, "unlink": the unlink of the link fails)
removeProxyConfig(conf, link, domain, fault) ==
    LET site == disableSite(link, domain, fault) IN
    IF site.threw
    THEN [conf |-> conf, link |-> link, threw |-> TRUE]
    ELSE IF fault = "write" /\ conf[domain] # "none"
    THEN [conf |-> conf, link |-> site.link, threw |-> TRUE]
    ELSE [conf |-> [conf EXCEPT ![domain] = "none"],
          link |-> site.link, threw |-> FALSE]

\* a reloadNginx that signals the reload whatever nginx -t said
reloadNginxNoTest(configOk, signalOk) ==
    [cmds |-> <<"nginx -t", "nginx -s reload">>, configOk |-> configOk,
     threw |-> ~signalOk]

\* reloadNginx: nginx -t, then nginx -s reload, in one try block; any failure
\* is rethrown as "Failed to reload nginx"
reloadNginx(configOk, signalOk) ==
    IF configOk
    THEN [cmds |-> <<"nginx -t", "nginx -s reload">>, configOk |-> TRUE,
          threw |-> ~signalOk]
    ELSE [cmds |-> <<"nginx -t">>, configOk |-> FALSE, threw |-> TRUE]

\* --------------------------------------------------------- proxy routes

MaxProxies == 1

\* the routes' try { writeProxyConfig / removeProxyConfig; reloadNginx }
\* catch { logError }: the reload runs only when the first call returned.
\* The locals of the call stay observable after it: the row it was asked to
\* write or remove (arg), for a removal the file and the link of the domain
\* as it found them (found), and whether its catch block logged an nginx
\* error (thrown).
Synchronize(t, op, proxyId, row, fsResult, configOk, signalOk) ==
    LET reload == IF fsResult.threw THEN NoReload
                  ELSE reloadNginx(configOk, signalOk)
    IN
    /\ siteConf' = fsResult.conf
    /\ siteLink' = fsResult.link
    /\ lastReload' = reload
    /\ loc' = [loc EXCEPT ![t] =
                 [Idle EXCEPT
                    !.op = op, !.p = proxyId, !.dom = row.domain,
                    !.arg = row,
                    !.found = IF op = "deleteProxy"
                              THEN <<siteConf[row.domain],
                                     row.domain \in siteLink>>
                              ELSE <<>>,
                    !.thrown = fsResult.threw \/ reload.threw]]

Respond(t, op, r) == res' = [res EXCEPT ![t] = [op |-> op, r |-> r]]

\* a call that fails before its first write
Refuse(t, op, r) ==
    /\ Respond(t, op, r)
    /\ loc' = [loc EXCEPT ![t] = Idle]
    /\ lastReload' = NoReload
    /\ UNCHANGED <<proxies, certs, fsVars, nextProxyId>>

crudFrame == <<timeVars, nextId, room, logs, material, acmeConf, acmeLink,
               pc, schedVars, probeVars, sideVars>>

\* SELECT id FROM proxies WHERE domain = ? AND id != ?
DomainCheck(domain, proxyId) ==
    {q \in DOMAIN proxies : proxies[q].domain = domain /\ q # proxyId}

\* a POST / whose catch block rethrows the nginx error
createProxyRethrow(t, user, domain, ssl, fault, configOk, signalOk) ==
    /\ pc[t] = "idle"
    /\ IF DomainCheck(domain, 0) # {}
       THEN Refuse(t, "createProxy", "ConflictError")
       ELSE /\ nextProxyId <= MaxProxies
            /\ LET row == [user_id |-> user, domain |-> domain,
                           ssl_enabled |-> ssl, status |-> "active"]
                   w == writeProxyConfig(siteConf, siteLink, row, fault)
               IN  /\ proxies' = proxies @@ (nextProxyId :> row)
                   /\ nextProxyId' = nextProxyId + 1
                   /\ Synchronize(t, "createProxy", nextProxyId, row, w,
                                  configOk, signalOk)
                   /\ Respond(t, "createProxy",
                              IF w.threw \/ ~configOk \/ ~signalOk
                              THEN "Error" ELSE "ok")
            /\ UNCHANGED <<certs, material, acmeConf, acmeLink>>
    /\ UNCHANGED crudFrame

\* POST /api/proxies
createProxy(t, user, domain, ssl, fault, configOk, signalOk) ==
    /\ pc[t] = "idle"
    /\ IF DomainCheck(domain, 0) # {}
       THEN Refuse(t, "createProxy", "ConflictError")
       ELSE /\ nextProxyId <= MaxProxies
            /\ LET row == [user_id |-> user, domain |-> domain,
                           ssl_enabled |-> ssl, status |-> "active"]
                   w == writeProxyConfig(siteConf, siteLink, row, fault)
               IN  /\ proxies' = proxies @@ (nextProxyId :> row)
                   /\ nextProxyId' = nextProxyId + 1
                   /\ Synchronize(t, "createProxy", nextProxyId, row, w,
                                  configOk, signalOk)
                   /\ Respond(t, "createProxy", "ok")
            /\ UNCHANGED <<certs, material, acmeConf, acmeLink>>
    /\ UNCHANGED crudFrame

\* PUT /api/proxies/:id
updateProxy(t, proxyId, user, domain, ssl, status, fault, configOk, signalOk) ==
    /\ pc[t] = "idle"
    /\ IF ProxyCheck(proxyId, user) = {}
       THEN Refuse(t, "updateProxy", "NotFoundError")
       ELSE IF DomainCheck(domain, proxyId) # {}
       THEN Refuse(t, "updateProxy", "ConflictError")
       ELSE LET row == [user_id |-> user, domain |-> domain,
                        ssl_enabled |-> ssl, status |-> status]
                w == writeProxyConfig(siteConf, siteLink, row, fault)
            IN  /\ proxies' = [proxies EXCEPT ![proxyId] = row]
                /\ Synchronize(t, "updateProxy", proxyId, row, w, configOk,
                               signalOk)
                /\ Respond(t, "updateProxy", "ok")
                /\ UNCHANGED <<certs, nextProxyId, material, acmeConf,
                               acmeLink>>
    /\ UNCHANGED crudFrame

\* DELETE /api/proxies/:id
deleteProxy(t, proxyId, user, fault, configOk, signalOk) ==
    /\ pc[t] = "idle"
    /\ IF ProxyCheck(proxyId, user) = {}
       THEN Refuse(t, "deleteProxy", "NotFoundError")
       ELSE LET row == proxies[proxyId]
                w == removeProxyConfig(siteConf, siteLink, row.domain, fault)
            IN  /\ certs' = [i \in DOMAIN certs \ RowsOf(proxyId) |-> certs[i]]
                /\ proxies' = [q \in DOMAIN proxies \ {proxyId} |-> proxies[q]]
                /\ Synchronize(t, "deleteProxy", proxyId, row, w, configOk,
                               signalOk)
                /\ Respond(t, "deleteProxy", "ok")
                /\ UNCHANGED <<nextProxyId, material, acmeConf, acmeLink>>
    /\ UNCHANGED crudFrame

\* an empty proxies table; the nginx directories hold whatever earlier runs
\* of the server or the operator left in them
ProxyInit ==
    /\ now = 0
    /\ sec = 1
    /\ secUsed = FALSE
    /\ proxies = << >>
    /\ certs = << >>
    /\ nextId = 1
    /\ room = MaxInserts
    /\ logs = << >>
    /\ material = [d \in Domains |-> NoMaterial]
    /\ acmeConf = {}
    /\ acmeLink = {}
    /\ siteConf \in [Domains -> {"none", "http", "https"}]
    /\ siteLink \in SUBSET Domains
    /\ pc = [t \in Threads |-> "idle"]
    /\ loc = [t \in Threads |-> Idle]
    /\ res = [t \in Threads |-> NoRes]
    /\ isRunning = FALSE
    /\ cronJob = NoJob
    /\ tasks = {}
    /\ nextTask = 1
    /\ schedLog = "RenewalScheduler initialized"
    /\ nextProxyId = 1
    /\ lastReload = NoReload
    /\ probes = [h \in ProbeHosts |-> NoProbe]
    /\ sans = {}
    /\ nginx = NoNginx
    /\ pool = NoPool
    /\ rendered = NoRendered

\* what the environment does to one synchronization: a filesystem fault (the
\* reload is then not reached), or the outcomes of nginx -t and, when it
\* passes, of nginx -s reload
NginxOutcomes ==
    {o \in [fault : FsFaults, configOk : BOOLEAN, signalOk : BOOLEAN] :
        /\ o.fault # "none" => o.configOk
        /\ ~o.configOk => o.signalOk}

\* the proxy routes, served one at a time, with every failure of the
\* filesystem and of the nginx commands
ProxyNext ==
    \/ \E user \in Callers, domain \in Domains, ssl \in BOOLEAN,
          o \in NginxOutcomes :
         createProxy(1, user, domain, ssl, o.fault, o.configOk, o.signalOk)
    \/ \E proxyId \in 1..MaxProxies, user \in Callers, domain \in Domains,
          ssl \in BOOLEAN, status \in ProxyStatuses, o \in NginxOutcomes :
         updateProxy(1, proxyId, user, domain, ssl, status, o.fault,
                     o.configOk, o.signalOk)
    \/ \E proxyId \in 1..MaxProxies, user \in Callers, o \in NginxOutcomes :
         deleteProxy(1, proxyId, user, o.fault, o.configOk, o.signalOk)

ProxySpec == ProxyInit /\ [][ProxyNext]_vars

\* empty nginx directories, as on a first start
ProxyOkInit ==
    /\ ProxyInit
    /\ siteConf = [d \in Domains |-> "none"]
    /\ siteLink = {}

\* the proxy routes, served one at a time, without any failure
ProxyOkNext ==
    \/ \E user \in Callers, domain \in Domains, ssl \in BOOLEAN :
         createProxy(1, user, domain, ssl, "none", TRUE, TRUE)
    \/ \E proxyId \in 1..MaxProxies, user \in Callers, domain \in Domains,
          ssl \in BOOLEAN, status \in ProxyStatuses :
         updateProxy(1, proxyId, user, domain, ssl, status, "none", TRUE, TRUE)
    \/ \E proxyId \in 1..MaxProxies, user \in Callers :
         deleteProxy(1, proxyId, user, "none", TRUE, TRUE)

ProxyOkSpec == ProxyOkInit /\ [][ProxyOkNext]_vars

\* ------------------------------------------- CertbotService.testDomain

StatusCodes == {200, 404}
ConnErrors == {"ECONNREFUSED"}
HangUp == "socket hang up"

\* the events a listener of the request is called with
ResponseEvent(code) == [kind |-> "response", code |-> code, msg |-> "none"]
TimeoutEvent == [kind |-> "timeout", code |-> Null, msg |-> "none"]
ErrorEvent(msg) == [kind |-> "error", code |-> Null, msg |-> msg]

\* what each listener passes to resolve
VerdictOf(domain, e) ==
    CASE e.kind = "response" ->
           [domain |-> domain, reachable |-> TRUE, statusCode |-> e.code,
            error |-> "none"]
      [] e.kind = "timeout" ->
           [domain |-> domain, reachable |-> FALSE, statusCode |-> Null,
            error |-> "timeout"]
      [] e.kind = "error" ->
           [domain |-> domain, reachable |-> FALSE, statusCode |-> Null,
            error |-> e.msg]

\* a resolve whose later calls replace the value
resolveOverwrites(probe, verdict) ==
    [probe EXCEPT !.promise = "resolved", !.verdict = verdict]

\* resolve of the promise: only the first call settles it
resolve(probe, verdict) ==
    IF probe.promise = "pending"
    THEN [probe EXCEPT !.promise = "resolved", !.verdict = verdict]
    ELSE probe

\* the request's listener is called with event e
Deliver(domain, e) ==
    resolve([probes[domain] EXCEPT !.events = Append(@, e)],
            VerdictOf(domain, e))

Responded(domain) ==
    \E i \in DOMAIN probes[domain].events :
       probes[domain].events[i].kind = "response"

probeFrame == <<timeVars, dbVars, fsVars, thVars, schedVars, crudVars,
               sideVars>>

\* testDomain(domain): the executor of the promise calls http.get, which
\* throws before returning when the host cannot be a Host header value (the
\* promise is then rejected), and else registers the three listeners
testDomain(domain) ==
    /\ probes[domain].promise = "none"
    /\ probes' = [probes EXCEPT ![domain].promise =
                    IF domain = BadHost THEN "rejected" ELSE "pending"]
    /\ UNCHANGED probeFrame

\* the request is open: created, and neither destroyed nor closed
Open(domain) ==
    /\ probes[domain].promise \in {"pending", "resolved"}
    /\ ~probes[domain].destroyed
    /\ ~probes[domain].closed

\* the response callback: any status code
OnResponse(domain, code) ==
    /\ Open(domain)
    /\ ~Responded(domain)
    /\ probes' = [probes EXCEPT ![domain] = Deliver(domain, ResponseEvent(code))]
    /\ UNCHANGED probeFrame

\* the 'timeout' listener: req.destroy(), then resolve; the socket can go
\* idle before the response or after it
OnTimeout(domain) ==
    /\ Open(domain)
    /\ probes' = [probes EXCEPT ![domain] =
                    [Deliver(domain, TimeoutEvent) EXCEPT !.destroyed = TRUE]]
    /\ UNCHANGED probeFrame

\* the 'error' listener, for a connection error of the open request
OnError(domain, msg) ==
    /\ Open(domain)
    /\ probes' = [probes EXCEPT ![domain] =
                    [Deliver(domain, ErrorEvent(msg)) EXCEPT !.closed = TRUE]]
    /\ UNCHANGED probeFrame

\* the destroyed request closes; when it had no response yet it may first
\* emit the 'error' of the destroy (socket hang up)
OnDestroyed(domain, emitsError) ==
    /\ probes[domain].destroyed
    /\ ~probes[domain].closed
    /\ emitsError => ~Responded(domain)
    /\ probes' = [probes EXCEPT ![domain] =
                    [(IF emitsError THEN Deliver(domain, ErrorEvent(HangUp))
                      ELSE probes[domain]) EXCEPT !.closed = TRUE]]
    /\ UNCHANGED probeFrame

ProbeNext ==
    \/ \E domain \in ProbeHosts : testDomain(domain)
    \/ \E domain \in ProbeHosts, code \in StatusCodes : OnResponse(domain, code)
    \/ \E domain \in ProbeHosts : OnTimeout(domain)
    \/ \E domain \in ProbeHosts, msg \in ConnErrors : OnError(domain, msg)
    \/ \E domain \in ProbeHosts, emitsError \in BOOLEAN :
         OnDestroyed(domain, emitsError)

\* the { timeout: timeoutMs } option: the socket of an open request that stays
\* idle gets its 'timeout' event
ProbeSpec ==
    /\ Init
    /\ [][ProbeNext]_vars
    /\ \A domain \in ProbeHosts : WF_vars(OnTimeout(domain))

\* ------------------------------------ CertbotService.persist: SAN rows

ExtraDomain == "www.example"
\* the domain lists persist is given: none (revoke), the primary alone (renew),
\* the primary and an extra domain (obtainCertificate with extra_domains)
DomainLists(primary) == {<<>>, <<primary>>, <<primary, ExtraDomain>>}

\* the second half of persist: when info.domains is not empty, DELETE the SAN
\* rows of every certificate of the proxy, then INSERT IGNORE one row per
\* domain for certId (rows is the ssl_certificates table the JOIN reads)
persistDomains(S, rows, proxyId, certId, domains) ==
    IF domains = <<>> THEN S
    ELSE (S \ {x \in S : x[1] \in DOMAIN rows /\ rows[x[1]].proxy_id = proxyId})
         \cup {<<certId, domains[k]>> : k \in DOMAIN domains}

sanFrame == <<now, sec, proxies, logs, fsVars, pc, res, schedVars, crudVars,
              probeVars, nginx, pool, rendered>>

\* the INSERT of a pending row by the request and renew routes and the sweep
SanInsert(proxyId) ==
    /\ \A t \in Threads : pc[t] = "idle"
    /\ proxyId \in DOMAIN proxies
    /\ Room(1)
    /\ certs' = InsertRow(certs, nextId, proxyId, proxies[proxyId].domain,
                          "pending", now + PlaceholderDays)
    /\ nextId' = nextId + 1
    /\ room' = room - 1
    /\ secUsed' = TRUE
    /\ loc' = [loc EXCEPT ![1] = Idle]
    /\ UNCHANGED <<sans, sanFrame>>

\* persist(primary, info), whole; the call stays observable in loc: the
\* certificate it wrote and the domain list it was given
SanPersist(primary, status, domains) ==
    /\ \A t \in Threads : pc[t] = "idle"
    /\ \E db \in persist(primary,
                         [status |-> status,
                          expires_at |-> IF status = "valid"
                                         THEN now + PlaceholderDays ELSE Null]) :
         /\ db.certId # 0
         /\ Persisted(db)
         /\ LET proxyId == db.certs[db.certId].proxy_id IN
            /\ sans' = persistDomains(sans, db.certs, proxyId, db.certId, domains)
            /\ loc' = [loc EXCEPT ![1] =
                         [Idle EXCEPT !.op = "persist", !.p = proxyId,
                                      !.cert = db.certId, !.sel = domains]]
    /\ UNCHANGED sanFrame

SanNext ==
    \/ SecondPasses
    \/ \E proxyId \in ProxyArgs : SanInsert(proxyId)
    \/ \E primary \in Domains, status \in {"valid", "failed"} :
         \E domains \in DomainLists(primary) :
            SanPersist(primary, status, domains)

SanSpec == Init /\ [][SanNext]_vars

\* ------------------------------------------------- nginx reload signals

\* what nginx has been told: checked is whether a successful nginx -t ran
\* after the last write to the configuration directories, signal is whether
\* the last nginx -s reload was sent with checked true
configWritten(n) == [n EXCEPT !.checked = FALSE]

nginxExec(n, cmd, configOk) ==
    IF cmd = "nginx -t"
    THEN [n EXCEPT !.checked = configOk]
    ELSE [n EXCEPT !.signal = IF n.checked THEN "checked" ELSE "unchecked"]

\* the commands of one reloadNginx call, in order
nginxRun(n, r) ==
    LET first == IF Len(r.cmds) >= 1 THEN nginxExec(n, r.cmds[1], r.configOk) ELSE n
    IN  IF Len(r.cmds) >= 2 THEN nginxExec(first, r.cmds[2], r.configOk) ELSE first

reloadFrame == <<timeVars, dbVars, material, thVars, schedVars, crudVars,
                 probeVars, sans, pool, rendered>>

\* writeProxyConfig then reloadNginx: the proxy create and update routes
\* and enableProxySSL at the end of an issuance
ReloadWrite(domain, ssl, status, o) ==
    LET w == writeProxyConfig(siteConf, siteLink,
                 [domain |-> domain, ssl_enabled |-> ssl, status |-> status],
                 o.fault)
        n == IF o.fault = "write" THEN nginx ELSE configWritten(nginx)
    IN  /\ siteConf' = w.conf
        /\ siteLink' = w.link
        /\ nginx' = IF w.threw THEN n
                    ELSE nginxRun(n, reloadNginx(o.configOk, o.signalOk))
        /\ UNCHANGED <<acmeConf, acmeLink, reloadFrame>>

\* removeProxyConfig then reloadNginx: the proxy delete route
ReloadRemove(domain, o) ==
    LET w == removeProxyConfig(siteConf, siteLink, domain, o.fault)
        n == IF w.conf = siteConf /\ w.link = siteLink THEN nginx
             ELSE configWritten(nginx)
    IN  /\ siteConf' = w.conf
        /\ siteLink' = w.link
        /\ nginx' = IF w.threw THEN n
                    ELSE nginxRun(n, reloadNginx(o.configOk, o.signalOk))
        /\ UNCHANGED <<acmeConf, acmeLink, reloadFrame>>

\* generateAcmeConfig: writeFile, unlink, symlink, then nginx -s reload
AcmeStandUp(primary, failAt) ==
    /\ generateAcmeConfig(primary, failAt)
    /\ nginx' = CASE failAt = "write" -> nginx
                  [] failAt = "symlink" -> configWritten(nginx)
                  [] OTHER -> nginxExec(configWritten(nginx), "nginx -s reload", TRUE)
    /\ UNCHANGED <<siteConf, siteLink, reloadFrame>>

\* removeAcmeConfig: the two unlinks, no reload
AcmeTearDown(primary) ==
    /\ removeAcmeConfig(primary)
    /\ nginx' = IF primary \in acmeLink THEN configWritten(nginx) ELSE nginx
    /\ UNCHANGED <<siteConf, siteLink, reloadFrame>>

\* renew: certbot renew, persist, then nginx -s reload when the certificate
\* is valid
RenewReload(valid) ==
    /\ nginx' = IF valid THEN nginxExec(nginx, "nginx -s reload", TRUE) ELSE nginx
    /\ UNCHANGED <<fsVars, reloadFrame>>

\* every component that talks to nginx, one call at a time
ReloadNext ==
    \/ \E domain \in Domains, ssl \in BOOLEAN, status \in ProxyStatuses,
          o \in NginxOutcomes : ReloadWrite(domain, ssl, status, o)
    \/ \E domain \in Domains, o \in NginxOutcomes : ReloadRemove(domain, o)
    \/ \E primary \in Domains, failAt \in {"none", "write", "symlink", "reload"} :
         AcmeStandUp(primary, failAt)
    \/ \E primary \in Domains : AcmeTearDown(primary)
    \/ \E valid \in BOOLEAN : RenewReload(valid)

ReloadSpec == Init /\ [][ReloadNext]_vars

\* one certificate in its renewal window: proxy 2 has no certificate, so a
\* sweep has one candidate
RetryInit ==
    /\ now = TickDays
    /\ sec = 3
    /\ secUsed = FALSE
    /\ proxies = (1 :> [user_id |-> 1, domain |-> "a.example",
                        ssl_enabled |-> TRUE, status |-> "active"])
              @@ (2 :> [user_id |-> 2, domain |-> "b.example",
                        ssl_enabled |-> FALSE, status |-> "active"])
    /\ certs = InsertRow(<< >>, 1, 1, "a.example", "valid", PlaceholderDays)
    /\ nextId = 2
    /\ room = MaxInserts
    /\ logs = << >>
    /\ material = [d \in Domains |->
                     IF d = "a.example" THEN PlaceholderDays ELSE NoMaterial]
    /\ acmeConf = {}
    /\ acmeLink = {}
    /\ siteConf = [d \in Domains |-> IF d = "a.example" THEN "https" ELSE "http"]
    /\ siteLink = Domains
    /\ pc = [t \in Threads |-> "idle"]
    /\ loc = [t \in Threads |-> Idle]
    /\ res = [t \in Threads |-> NoRes]
    /\ isRunning = FALSE
    /\ cronJob = NoJob
    /\ tasks = {}
    /\ nextTask = 1
    /\ schedLog = "RenewalScheduler initialized"
    /\ nextProxyId = 3
    /\ lastReload = NoReload
    /\ probes = [h \in ProbeHosts |-> NoProbe]
    /\ sans = {}
    /\ nginx = NoNginx
    /\ pool = NoPool
    /\ rendered = NoRendered

\* the started scheduler with one candidate: every cron tick that can fire
\* does, every renewal that began goes on
RetrySpec ==
    /\ RetryInit /\ [][RunningNext]_vars
    /\ WF_vars(start) /\ WF_vars(CronFire(1)) /\ WF_vars(SweepStep(1))

\* a proxy being deleted on one thread while a certificate request for it
\* is in service on the other: the route's awaits let the DELETE statements
\* run between the request's SELECTs and its INSERT
DeleteRaceNext ==
    \/ SecondPasses
    \/ Request(1, FALSE)
    \/ \E proxyId \in ProxyArgs, user \in Callers :
         deleteProxy(2, proxyId, user, "none", TRUE, TRUE)

DeleteRaceSpec == Init /\ [][DeleteRaceNext]_vars

\* forceRenewalCheck: checkAndRenewCertificates outside the schedule
forceRenewalCheck(t) == SweepSelect(t) \/ SweepStep(t)

\* the cron tick of the started scheduler on one thread and a manual check
\* on the other; neither waits for the other
OverlapNext ==
    \/ SecondPasses
    \/ start
    \/ CronFire(1) \/ SweepStep(1)
    \/ forceRenewalCheck(2)

OverlapSpec == RetryInit /\ [][OverlapNext]_vars

\* ------------------------------------------------- the connection pool

\* connectionLimit of the pool, here as many as there are concurrent handlers
connectionLimit == Cardinality(Threads)

\* the service calls a handler makes while it holds its own connection, each
\* taking a connection of its own for its duration: a certificate request
\* runs persist, enableProxySSL and, when that throws, persist again; a
\* renewal runs persist
ServiceCalls(kind) ==
    IF kind = "request" THEN <<"persist", "enableProxySSL", "persist">>
    ELSE <<"persist">>

\* connections of the pool P that are handed out
InUse(P) == Cardinality({x \in Threads \X (1..connectionLimit) : x[2] <= P[x[1]].held})

\* pool.getConnection() with waitForConnections: true and queueLimit: 0: a
\* free connection is handed out, otherwise the caller is queued without limit
getConnection(P, t) ==
    IF InUse(P) < connectionLimit
    THEN [P EXCEPT ![t].held = @ + 1]
    ELSE [P EXCEPT ![t].waiting = TRUE]

poolFrame == <<timeVars, dbVars, fsVars, thVars, schedVars, crudVars,
               probeVars, sans, nginx, rendered>>

\* a handler starts: const connection = await pool.getConnection()
HandlerBegin(t, kind) ==
    /\ pool[t].kind = "none"
    /\ pool' = getConnection([pool EXCEPT ![t].kind = kind], t)
    /\ UNCHANGED poolFrame

\* the handler, holding its connection, calls its next service function,
\* whose first statement is pool.getConnection()
ServiceBegin(t) ==
    /\ pool[t].held = 1
    /\ ~pool[t].waiting
    /\ pool[t].calls < Len(ServiceCalls(pool[t].kind))
    /\ pool' = getConnection(pool, t)
    /\ UNCHANGED poolFrame

\* a queued getConnection is served once a connection is free
Granted(t) ==
    /\ pool[t].waiting
    /\ InUse(pool) < connectionLimit
    /\ pool' = [pool EXCEPT ![t].held = @ + 1, ![t].waiting = FALSE]
    /\ UNCHANGED poolFrame

\* finally { conn.release() } of the service function
ServiceEnd(t) ==
    /\ pool[t].held = 2
    /\ pool' = [pool EXCEPT ![t].held = 1, ![t].calls = @ + 1]
    /\ UNCHANGED poolFrame

\* finally { connection.release() } of the handler
HandlerEnd(t) ==
    /\ pool[t].held = 1
    /\ ~pool[t].waiting
    /\ pool' = [pool EXCEPT ![t] = NoPool[t]]
    /\ UNCHANGED poolFrame

\* certificate requests and renewals arriving on every thread
PoolNext ==
    \E t \in Threads :
        \/ \E kind \in {"request", "renew"} : HandlerBegin(t, kind)
        \/ ServiceBegin(t)
        \/ Granted(t)
        \/ ServiceEnd(t)
        \/ HandlerEnd(t)

PoolSpec == Init /\ [][PoolNext]_vars

\* ------------------------------------------ the authored proxy_pass line

BackendHosts == {"localhost", "app.internal"}
BackendPorts == {"80", "3000"}
Undefined == "undefined"

\* const target = `http://${target_host}:${port}`
targetUrl(host, port) == <<"http://", host, ":", port>>

\* parseTarget: new URL(target).hostname, and parseInt(url.port) || 80, where
\* url.port is empty for the scheme's default port
parseTarget(target) ==
    LET urlPort == IF target[4] = "80" THEN "" ELSE target[4] IN
    [target_host |-> target[2],
     target_port |-> IF urlPort = "" THEN "80" ELSE urlPort]

\* a property of a row object; a column the SELECT did not return reads as
\* undefined
Field(row, name) == IF name \in DOMAIN row THEN row[name] ELSE Undefined

\* SELECT id, domain, target, ssl_enabled, created_at, updated_at, status
SelectedProxy(row) ==
    [domain |-> row.domain, target |-> row.target,
     ssl_enabled |-> row.ssl_enabled, status |-> row.status]

\* generateProxyConfig: const { domain, target_host, target_port, ssl_enabled }
\* = proxy; ... proxy_pass http://${target_host}:${target_port};
proxyPass(proxy) ==
    <<"http://", Field(proxy, "target_host"), ":", Field(proxy, "target_port")>>

renderedConfig(proxy) ==
    [template |-> generateProxyConfig(proxy), proxy_pass |-> proxyPass(proxy)]

renderFrame == <<timeVars, nextId, room, logs, material, acmeConf, acmeLink,
                 pc, schedVars, probeVars, sans, nginx, pool>>

\* POST /api/proxies with the body's backend host and port
RenderCreate(t, user, domain, host, port, ssl) ==
    /\ pc[t] = "idle"
    /\ IF DomainCheck(domain, 0) # {}
       THEN /\ Refuse(t, "createProxy", "ConflictError")
            /\ UNCHANGED rendered
       ELSE /\ nextProxyId <= MaxProxies
            /\ LET row == [user_id |-> user, domain |-> domain,
                           target |-> targetUrl(host, port),
                           ssl_enabled |-> ssl, status |-> "active"]
                   createdProxy == SelectedProxy(row)
                   w == writeProxyConfig(siteConf, siteLink, createdProxy, "none")
               IN  /\ proxies' = proxies @@ (nextProxyId :> row)
                   /\ nextProxyId' = nextProxyId + 1
                   /\ Synchronize(t, "createProxy", nextProxyId, createdProxy,
                                  w, TRUE, TRUE)
                   /\ rendered' = [rendered EXCEPT
                                     ![domain] = renderedConfig(createdProxy)]
                   /\ Respond(t, "createProxy", "ok")
            /\ UNCHANGED <<certs, material, acmeConf, acmeLink>>
    /\ UNCHANGED renderFrame

\* PUT /api/proxies/:id with the body's backend host and port
RenderUpdate(t, proxyId, user, domain, host, port, ssl, status) ==
    /\ pc[t] = "idle"
    /\ IF ProxyCheck(proxyId, user) = {}
       THEN /\ Refuse(t, "updateProxy", "NotFoundError")
            /\ UNCHANGED rendered
       ELSE IF DomainCheck(domain, proxyId) # {}
       THEN /\ Refuse(t, "updateProxy", "ConflictError")
            /\ UNCHANGED rendered
       ELSE LET row == [user_id |-> user, domain |-> domain,
                        target |-> targetUrl(host, port),
                        ssl_enabled |-> ssl, status |-> status]
                updatedProxyData == SelectedProxy(row)
                w == writeProxyConfig(siteConf, siteLink, updatedProxyData, "none")
            IN  /\ proxies' = [proxies EXCEPT ![proxyId] = row]
                /\ Synchronize(t, "updateProxy", proxyId, updatedProxyData, w,
                               TRUE, TRUE)
                /\ rendered' = [rendered EXCEPT
                                  ![domain] = renderedConfig(updatedProxyData)]
                /\ Respond(t, "updateProxy", "ok")
                /\ UNCHANGED <<certs, nextProxyId, material, acmeConf,
                               acmeLink>>
    /\ UNCHANGED renderFrame

\* DELETE /api/proxies/:id: the authored file of the domain goes
RenderDelete(t, proxyId, user) ==
    /\ pc[t] = "idle"
    /\ IF ProxyCheck(proxyId, user) = {}
       THEN /\ Refuse(t, "deleteProxy", "NotFoundError")
            /\ UNCHANGED rendered
       ELSE LET row == proxies[proxyId]
                w == removeProxyConfig(siteConf, siteLink, row.domain, "none")
            IN  /\ certs' = [i \in DOMAIN certs \ RowsOf(proxyId) |-> certs[i]]
                /\ proxies' = [q \in DOMAIN proxies \ {proxyId} |-> proxies[q]]
                /\ Synchronize(t, "deleteProxy", proxyId, SelectedProxy(row), w,
                               TRUE, TRUE)
                /\ rendered' = [rendered EXCEPT ![row.domain] = <<>>]
                /\ Respond(t, "deleteProxy", "ok")
                /\ UNCHANGED <<nextProxyId, material, acmeConf, acmeLink>>
    /\ UNCHANGED renderFrame

\* the proxy routes, served one at a time, with every backend a body can name
RenderNext ==
    \/ \E user \in Callers, domain \in Domains, host \in BackendHosts,
          port \in BackendPorts, ssl \in BOOLEAN :
         RenderCreate(1, user, domain, host, port, ssl)
    \/ \E proxyId \in 1..MaxProxies, user \in Callers, domain \in Domains,
          host \in BackendHosts, port \in BackendPorts, ssl \in BOOLEAN,
          status \in ProxyStatuses :
         RenderUpdate(1, proxyId, user, domain, host, port, ssl, status)
    \/ \E proxyId \in 1..MaxProxies, user \in Callers :
         RenderDelete(1, proxyId, user)

RenderSpec == ProxyOkInit /\ [][RenderNext]_vars

\* ================================================================ claims

ActiveRows(proxyId) == {i \in RowsOf(proxyId) : certs[i].status \in Active}

AllIdle == \A t \in Threads : pc[t] = "idle"

\* C1: under sequential operation (every request, renewal, revocation,
\* deletion and sweep runs to completion before the next), whenever no call
\* is in service each proxy has at most one certificate row whose status is
\* pending or valid.
C1_OneActivePerProxy ==
    AllIdle => \A p \in DOMAIN proxies : Cardinality(ActiveRows(p)) <= 1

\* C2: when two requestCertificate calls for the same proxy interleave, at
\* most one of them inserts a pending row: the rows the two calls inserted
\* are never both pending or valid.
C2_RacingRequestsInsertOnce ==
    \A t1, t2 \in Threads :
        (/\ t1 # t2
         /\ loc[t1].op = "request" /\ loc[t2].op = "request"
         /\ loc[t1].p = loc[t2].p
         /\ loc[t1].cert \in DOMAIN certs /\ loc[t2].cert \in DOMAIN certs)
        => ~(certs[loc[t1].cert].status \in Active
             /\ certs[loc[t2].cert].status \in Active)

\* C3: a row whose status is expired, failed or revoked keeps that status in
\* every step of every operation, for as long as the row exists.
C3_TerminalIsFinal ==
    [][\A i \in DOMAIN certs :
          (certs[i].status \in Terminal /\ i \in DOMAIN certs')
          => certs'[i].status = certs[i].status]_vars

\* C4: when the attempt of the request route, the renew route or the sweep
\* ends in its catch block (the external command exited non-zero or threw),
\* the step that ends the attempt leaves the attempt's row failed.
C4_FailedAttemptEndsFailed ==
    [][\A t \in Threads :
          (/\ pc[t] \in {"req_catch", "ren_catch", "sw_catch"}
           /\ pc'[t] # pc[t]
           /\ loc[t].cert \in DOMAIN certs')
          => certs'[loc[t].cert].status = "failed"]_vars

\* the obtainCertificate call of thread t has returned or thrown
ObtainLeft(t) == loc[t].op = "request" /\ pc[t] \in {"req_final", "req_catch"}

\* C5: every obtainCertificate call that reaches the certbot run removes the
\* challenge routing exactly once: removeAcmeConfig has not run while the call
\* is inside its try block, and has run once when the call has returned or
\* thrown, whether the run, the validity check, persist or enableProxySSL
\* failed or all succeeded.
C5_TeardownExactlyOnce ==
    \A t \in Threads :
        /\ loc[t].teardown <= 1
        /\ pc[t] \in {"obt_ca", "obt_persist", "obt_enable", "obt_catch", "obt_finally"}
           => loc[t].teardown = 0
        /\ (ObtainLeft(t) /\ loc[t].ca > 0) => loc[t].teardown = 1

\* C5 witness: the certbot run of a request threw and the call has left
\* obtainCertificate with one teardown.
C5_Witness ==
    /\ pc[1] = "req_catch"
    /\ loc[1].ca = 1
    /\ loc[1].info = NoInfo
    /\ loc[1].teardown = 1

\* C6: once obtainCertificate has returned or thrown - also when standing up
\* the challenge routing failed after the file or the link was created - no
\* acme config of the domain remains authored or enabled.
C6_NoAcmeConfigRemains ==
    \A t \in Threads :
        ObtainLeft(t) => loc[t].dom \notin (acmeConf \cup acmeLink)

CurrentCerts(proxyId) == Newest(RowsOf(proxyId))

FreshValid(row) ==
    row.status = "valid" /\ DaysUntilExpiry(row.expires_at) > RenewalWindowDays

\* the step serves the call of thread t with error r and nothing else
Refused(t, op, r) ==
    /\ res'[t] = [op |-> op, r |-> r]
    /\ pc'[t] = "idle"
    /\ UNCHANGED <<dbVars, fsVars>>

\* C7: a renewCertificate call on a proxy whose current (most recently
\* created) certificate is valid with more than 30 days left is answered
\* with ValidationError in its first step: no row inserted, no status
\* changed, no file touched, and the handler is idle again, so no CA command.
C7_RenewRefusesFreshValid ==
    [][\A t \in Threads, p \in ProxyArgs, u \in Callers :
          (/\ RenewCheck(t, p, u)
           /\ ProxyCheck(p, u) # {}
           /\ CurrentCerts(p) # {}
           /\ \A c \in CurrentCerts(p) : FreshValid(certs[c]))
          => Refused(t, "renew", "ValidationError")]_vars

\* C7 witness: the renew call was refused with ValidationError and the
\* proxy's current certificate is valid with more than 30 days left.
C7_Witness ==
    /\ pc[1] = "idle"
    /\ res[1] = [op |-> "renew", r |-> "ValidationError"]
    /\ CurrentCerts(1) # {}
    /\ \A c \in CurrentCerts(1) : FreshValid(certs[c])

\* the renewal attempt of thread t found its current certificate valid with
\* at most 30 days left
RenewsDueValid(t) ==
    /\ loc[t].op \in {"renew", "sweep"}
    /\ loc[t].cur \in DOMAIN loc[t].pre
    /\ loc[t].pre[loc[t].cur].status = "valid"
    /\ DaysUntilExpiry(loc[t].pre[loc[t].cur].expires_at) <= RenewalWindowDays

\* C8: a renewal (route or sweep) of a current certificate that is valid with
\* at most 30 days left first moves that row to expired and then inserts
\* exactly one pending row under an id no row had, both before the CA renewal
\* command runs: before the insert the table is the one the call found with
\* the current row expired; before the CA command it has that plus the one
\* new pending row, and no CA command has run.
C8_ExpireThenInsertThenCA ==
    \A t \in Threads :
        RenewsDueValid(t) =>
            LET l == loc[t]
                expired == SetStatus(l.pre, l.cur, "expired") IN
            /\ pc[t] = "ren_expire" => (certs = l.pre /\ l.ca = 0)
            /\ pc[t] \in {"ren_insert", "sw_insert"} => (certs = expired /\ l.ca = 0)
            /\ pc[t] \in {"ren_ca", "sw_ca"} =>
                 /\ l.ca = 0
                 /\ l.cert \notin DOMAIN l.pre
                 /\ DOMAIN certs = DOMAIN l.pre \cup {l.cert}
                 /\ \A i \in DOMAIN l.pre : certs[i] = expired[i]
                 /\ certs[l.cert].status = "pending"
                 /\ certs[l.cert].proxy_id = l.pre[l.cur].proxy_id

\* C8 witness: the renew route is about to run the CA command for a
\* certificate it found valid with at most 30 days left.
C8_Witness ==
    /\ pc[1] = "ren_ca"
    /\ RenewsDueValid(1)
    /\ certs[loc[1].cur].status = "expired"

C10_RenewRefusesPending ==
    [][\A t \in Threads, p \in ProxyArgs, u \in Callers :
          (/\ RenewCheck(t, p, u)
           /\ ProxyCheck(p, u) # {}
           /\ CurrentCerts(p) # {}
           /\ \A c \in CurrentCerts(p) : certs[c].status = "pending")
          => Refused(t, "renew", "ValidationError")]_vars

\* C11: a row becomes revoked only in the last step of a revokeCertificate
\* call that found the row valid; a revokeCertificate call on a certificate
\* of the caller whose status is not valid is answered with ValidationError
\* in its first step, with no table or file changed and the handler idle
\* again, so no CA command.
C11_RevokeOnlyValid ==
    [][/\ \A i \in DOMAIN certs \cap DOMAIN certs' :
             (certs[i].status # "revoked" /\ certs'[i].status = "revoked")
             => \E t \in Threads : /\ pc[t] = "rev_update"
                                   /\ loc[t].op = "revoke"
                                   /\ loc[t].cur = i
                                   /\ loc[t].pre[i].status = "valid"
       /\ \A t \in Threads, c \in 1..MaxInserts, u \in Callers :
             (/\ RevokeCheck(t, c, u)
              /\ CertCheck(c, u) # {}
              /\ certs[c].status # "valid")
             => Refused(t, "revoke", "ValidationError")]_vars

\* C11 witness: a revoke call was refused with ValidationError while no row
\* is valid, and an earlier revoke call has left a row revoked.
C11_Witness ==
    /\ pc[1] = "idle"
    /\ res[1] = [op |-> "revoke", r |-> "ValidationError"]
    /\ \A i \in DOMAIN certs : certs[i].status # "valid"
    /\ \E i \in DOMAIN certs : certs[i].status = "revoked"

C13_ManualRenewalIsLogged ==
    [][\A t \in Threads :
          (loc[t].op = "renew" /\ pc[t] # "idle" /\ pc'[t] = "idle")
          => /\ Len(logs') = loc[t].log0 + 1
             /\ logs'[Len(logs')].domain = loc[t].dom
             /\ (loc[t].cert \in DOMAIN certs'
                 /\ certs'[loc[t].cert].status = "valid")
                => logs'[Len(logs')].status = "success"]_vars

\* C14: after any sequence of start() and stop() calls the scheduler is
\* running iff a recurring trigger is registered, the only registered trigger
\* is the one the scheduler holds, and there is at most one; start() while
\* running changes no scheduler state, start() while stopped leaves it
\* running with one trigger, stop() leaves it stopped with none.
C14_RunningIffOneTrigger ==
    /\ [](/\ isRunning <=> tasks # {}
          /\ Cardinality(tasks) <= 1
          /\ tasks = IF cronJob = NoJob THEN {} ELSE {cronJob})
    /\ [][/\ (start /\ isRunning) => UNCHANGED schedState
          /\ (start /\ ~isRunning) => (isRunning' /\ Cardinality(tasks') = 1)
          /\ stop => (~isRunning' /\ tasks' = {})]_vars

\* C14 witness: the scheduler runs again after start(), stop(), start(): it
\* holds the second trigger it registered, and a further start() was a no-op.
C14_Witness ==
    /\ isRunning
    /\ cronJob = 2
    /\ tasks = {2}
    /\ schedLog = "already running"

\* the request of thread t found no certificate row of its proxy
FirstRequest(t) ==
    /\ loc[t].op = "request"
    /\ \A i \in DOMAIN loc[t].pre : loc[t].pre[i].proxy_id # loc[t].p

\* the proxy of thread t's request has the one row the request inserted,
\* with the given status
OnlyRow(t, status) ==
    /\ RowsOf(loc[t].p) = {loc[t].cert}
    /\ certs[loc[t].cert].status = status

C16_ReloadChecksFirst ==
    lastReload # NoReload =>
      /\ lastReload.cmds[1] = "nginx -t"
      /\ Cardinality({i \in DOMAIN lastReload.cmds :
                        lastReload.cmds[i] = "nginx -s reload"})
           = IF lastReload.configOk THEN 1 ELSE 0
      /\ Len(lastReload.cmds) = IF lastReload.configOk THEN 2 ELSE 1
      /\ ~lastReload.configOk => lastReload.threw

\* C16 witness: a reload whose syntax check failed: one command, thrown
C16_Witness ==
    /\ lastReload.cmds = <<"nginx -t">>
    /\ ~lastReload.configOk
    /\ lastReload.threw
    /\ res[1].r = "ok"

\* C17: removeProxyConfig(domain), without a failure other than ENOENT, does
\* not throw whether the link, the file or both are absent, leaves neither,
\* leaves the other domains alone, and applied again gives the same state;
\* a deleteProxy whose nginx calls did not throw leaves neither.
C17_DeactivateIdempotent ==
    /\ [](\A d \in Domains :
            LET once == removeProxyConfig(siteConf, siteLink, d, "none")
                twice == removeProxyConfig(once.conf, once.link, d, "none")
            IN  /\ ~once.threw
                /\ once.conf[d] = "none"
                /\ d \notin once.link
                /\ \A e \in Domains \ {d} :
                     /\ once.conf[e] = siteConf[e]
                     /\ e \in once.link <=> e \in siteLink
                /\ twice = once)
    /\ [][(loc'[1].op = "deleteProxy" /\ ~loc'[1].thrown) =>
            /\ siteConf'[loc'[1].dom] = "none"
            /\ loc'[1].dom \notin siteLink'
            /\ \A e \in Domains \ {loc'[1].dom} :
                 /\ siteConf'[e] = siteConf[e]
                 /\ e \in siteLink' <=> e \in siteLink]_vars

\* C17 witness: a deleteProxy found the file without its link, did not throw
\* and left neither
C17_Witness ==
    /\ res[1] = [op |-> "deleteProxy", r |-> "ok"]
    /\ loc[1].found = <<"http", FALSE>>
    /\ ~loc[1].thrown
    /\ siteConf[loc[1].dom] = "none"
    /\ loc[1].dom \notin siteLink

\* domains of the proxies table, and those of its active rows
ProxyDomains == {proxies[q].domain : q \in DOMAIN proxies}
ActiveDomains ==
    {proxies[q].domain : q \in {r \in DOMAIN proxies :
                                  proxies[r].status = "active"}}

CrudOps == {"createProxy", "updateProxy", "deleteProxy"}

\* C19: a createProxy, updateProxy or deleteProxy whose config write,
\* activation, removal or reload threw keeps its change of the proxies table
\* (the inserted row, the updated row, the row gone) and answers success.
C19_NginxFailureKeepsChange ==
    [][(loc'[1].op \in CrudOps /\ loc'[1].thrown) =>
         LET call == loc'[1] IN
         /\ res'[1] = [op |-> call.op, r |-> "ok"]
         /\ call.op = "createProxy" =>
              /\ call.p \notin DOMAIN proxies
              /\ DOMAIN proxies' = DOMAIN proxies \cup {call.p}
              /\ proxies'[call.p] = call.arg
              /\ \A q \in DOMAIN proxies : proxies'[q] = proxies[q]
         /\ call.op = "updateProxy" =>
              /\ DOMAIN proxies' = DOMAIN proxies
              /\ proxies'[call.p] = call.arg
              /\ \A q \in DOMAIN proxies \ {call.p} : proxies'[q] = proxies[q]
         /\ call.op = "deleteProxy" =>
              /\ call.p \in DOMAIN proxies
              /\ DOMAIN proxies' = DOMAIN proxies \ {call.p}
              /\ \A q \in DOMAIN proxies' : proxies'[q] = proxies[q]]_vars

\* C19 witness: the reload of the only createProxy served threw; the row is
\* in the table and the answer was success
C19_Witness ==
    /\ res[1] = [op |-> "createProxy", r |-> "ok"]
    /\ loc[1].op = "createProxy"
    /\ loc[1].thrown
    /\ lastReload.threw
    /\ loc[1].p \in DOMAIN proxies
    /\ proxies[loc[1].p] = loc[1].arg

\* the probe of host h has at most the verdict of its first event, and is
\* never rejected
OneVerdict(h) ==
    /\ probes[h].promise # "rejected"
    /\ probes[h].promise = "pending" => probes[h].events = <<>>
    /\ probes[h].events # <<>> =>
         /\ probes[h].promise = "resolved"
         /\ probes[h].verdict = VerdictOf(h, probes[h].events[1])

\* a resolved probe keeps its verdict in every later step
VerdictFixed(h) ==
    probes[h].promise = "resolved" =>
      /\ probes'[h].promise = "resolved"
      /\ probes'[h].verdict = probes[h].verdict

PastValid == {i \in DOMAIN certs : certs[i].status = "valid"
                                   /\ certs[i].expires_at <= now}

\* C21: a valid row whose expiry has passed does not stay valid: whenever
\* there is one, eventually there is none.
C21_PassiveExpiry == (PastValid # {}) ~> (PastValid = {})

\* the SAN domains stored for certificate c in the table S
SanOf(S, c) == {x[2] : x \in {y \in S : y[1] = c}}

\* C22: a persist with a domain list leaves, for the certificate it wrote,
\* exactly the domains of the list, and leaves the SAN rows of every other
\* certificate as they were.
C22_SanReplaceAllForOneCert ==
    [][(loc'[1].op = "persist" /\ loc'[1].sel # <<>>) =>
         LET c == loc'[1].cert
             given == {loc'[1].sel[k] : k \in DOMAIN loc'[1].sel}
         IN  /\ SanOf(sans', c) = given
             /\ \A x \in sans \cup sans' :
                  x[1] # c => (x \in sans <=> x \in sans')]_vars

\* C23: every reload signal sent to nginx, by any component, follows a
\* successful nginx -t made after the last write to the configuration.
C23_ReloadOnlyAfterCheck == nginx.signal # "unchecked"

SweepLogs(d) == {k \in DOMAIN logs : logs[k].domain = d}

\* the row a sweep superseded, while the certificate it stands for is unexpired
Superseded(d) ==
    {i \in DOMAIN certs : /\ certs[i].domain = d
                          /\ certs[i].status = "expired"
                          /\ certs[i].expires_at > now}

\* the one renewal attempt for d so far did not succeed and left no valid row
FailedOnce(d) ==
    /\ pc[1] = "idle"
    /\ Cardinality(SweepLogs(d)) = 1
    /\ \A k \in SweepLogs(d) : logs[k].status # "success"
    /\ Superseded(d) # {}
    /\ \A i \in DOMAIN certs : certs[i].domain = d => certs[i].status # "valid"
    /\ Room(1)

\* C24: a certificate whose renewal attempt failed on one tick of the running
\* scheduler is attempted again on a later tick, unless it expires first.
C24_FailedRenewalRetried ==
    \A d \in Domains :
        FailedOnce(d) ~> (Cardinality(SweepLogs(d)) > 1 \/ Superseded(d) = {})

\* C25: every certificate row belongs to a proxy that exists, also when
\* deleteProxy runs while a certificate request for the proxy is in service.
C25_CertificateHasProxy ==
    \A i \in DOMAIN certs : certs[i].proxy_id \in DOMAIN proxies

\* a sweep on thread t is renewing a certificate it selected
InRenewal(t) ==
    /\ loc[t].op = "sweep"
    /\ pc[t] \in {"sw_insert", "sw_ca", "sw_persist", "sw_final", "sw_catch"}

\* C26: a manual renewal check and a scheduled tick (or two manual checks)
\* never process the same certificate at the same time.
C26_NoOverlappingSweeps ==
    \A t, u \in Threads :
        (t # u /\ InRenewal(t) /\ InRenewal(u)) => loc[t].cur # loc[u].cur

\* the rows other than the one the call on thread t was asked to revoke or
\* delete have the status and expiry the call found them with
OthersAsFound(t) ==
    \A i \in DOMAIN certs \cap DOMAIN loc[t].pre :
        i # loc[t].cur =>
            /\ certs[i].status = loc[t].pre[i].status
            /\ certs[i].expires_at = loc[t].pre[i].expires_at

\* C27: revokeCertificate(id) and deleteCertificate(id) change the status and
\* the expiry of no certificate row other than row id.
C27_RevokeTouchesOnlyItsRow ==
    \A t \in Threads : loc[t].op \in {"revoke", "delete"} => OthersAsFound(t)

ValidRows(proxyId) ==
    {i \in RowsOf(proxyId) : certs[i].status = "valid"}

\* C28: while no call is in service, a proxy created without TLS has its
\* ssl_enabled flag set, or an HTTPS config file, only if it has a valid
\* certificate row.
C28_TlsFlagImpliesValidRow ==
    AllIdle =>
        \A q \in DOMAIN proxies :
            (proxies[q].ssl_enabled \/ siteConf[proxies[q].domain] = "https")
                => ValidRows(q) # {}

\* every connection of the pool is held by a handler that is queued for
\* another one
PoolExhaustedByWaiters ==
    /\ InUse(pool) = connectionLimit
    /\ \A t \in Threads : pool[t].held > 0 => pool[t].waiting

\* C29: with as many concurrent request or renewal handlers as the pool has
\* connections, the handlers never hold all connections while each waits for
\* one more.
C29_NoPoolDeadlock == ~PoolExhaustedByWaiters

\* the proxy_pass line that names the backend of the stored record
StoredBackend(row) ==
    LET backend == parseTarget(row.target) IN
    <<"http://", backend.target_host, ":", backend.target_port>>

\* C30: the config file written by a proxy create or update has the template
\* of the record's TLS flag and a proxy_pass line naming the backend host and
\* port stored for the proxy.
C30_ConfigNamesStoredBackend ==
    \A t \in Threads :
        loc[t].op \in {"createProxy", "updateProxy"} =>
            /\ rendered[loc[t].dom].template
                   = (IF proxies[loc[t].p].ssl_enabled THEN "https" ELSE "http")
            /\ rendered[loc[t].dom].proxy_pass = StoredBackend(proxies[loc[t].p])

====
